---------------------------- MODULE Spec2Model ----------------------------
(***************************************************************************)
(* Scriptorium publisher: the event graph compiler (serialize_bookstr and  *)
(* the d-tag derivation _d_for), the generate summary, and the signing and  *)
(* publishing client (publish_events_ndjson, qc_check_events).              *)
(*                                                                          *)
(* Text is modelled as a sequence of one-character strings, so that the     *)
(* slug and d-tag derivations are computed character by character as the    *)
(* Python code computes them.  Two tokens stand for non-ASCII input:        *)
(* "eacute" (U+00E9, whose NFKD form is "e" plus a combining accent) and    *)
(* "cjk" (a letter with no ASCII decomposition).                           *)
(***************************************************************************)
EXTENDS Integers, Sequences, FiniteSets, TLC

(***************************************************************************)
(* Characters and generic string helpers (Python str semantics).           *)
(***************************************************************************)
LowerChars == {"a","b","c","d","e","f","g","h","i","j","k","l","m","n","o","p","q","r","s","t","u","v","w","x","y","z"}

UpperSeq == <<"A","B","C","D","E","F","G","H","I","J","K","L","M","N","O","P","Q","R","S","T","U","V","W","X","Y","Z">>

LowerSeq == <<"a","b","c","d","e","f","g","h","i","j","k","l","m","n","o","p","q","r","s","t","u","v","w","x","y","z">>

UpperChars == {UpperSeq[i] : i \in 1..26}

DigitChars == {"0","1","2","3","4","5","6","7","8","9"}

DigitSeq == <<"0","1","2","3","4","5","6","7","8","9">>

\* str.lower() on one character
LowerChar(c) ==
  IF c \in UpperChars THEN LowerSeq[CHOOSE i \in 1..26 : UpperSeq[i] = c]
  ELSE IF c = "EACUTE" THEN "eacute"
  ELSE c

\* The sequence <<f[1], ..., f[n]>>
Tabulate(f, n) == SubSeq(f, 1, n)

Lower(s) == Tabulate([i \in 1..Len(s) |-> LowerChar(s[i])], Len(s))

\* str(n) for a natural number
RECURSIVE IntToStr(_)
IntToStr(n) ==
  IF n < 10 THEN <<DigitSeq[n + 1]>>
  ELSE IntToStr(n \div 10) \o <<DigitSeq[(n % 10) + 1]>>

\* sep.join(parts)
RECURSIVE Join(_, _)
Join(parts, sep) ==
  IF Len(parts) = 0 THEN <<>>
  ELSE IF Len(parts) = 1 THEN parts[1]
  ELSE parts[1] \o sep \o Join(Tail(parts), sep)

\* s.split(c) for a one-character separator c: the pieces between the
\* occurrences of c, empty pieces included
Split(s, c) ==
  LET seps == {i \in 1..Len(s) : s[i] = c}
      \* position of the k-th separator; 0 before the first, Len(s)+1 after the last
      pos(k) == IF k = 0 THEN 0
                ELSE IF k > Cardinality(seps) THEN Len(s) + 1
                ELSE CHOOSE i \in seps : Cardinality({j \in seps : j <= i}) = k
  IN Tabulate([k \in 1..(Cardinality(seps) + 1) |->
                 SubSeq(s, pos(k - 1) + 1, pos(k) - 1)], Cardinality(seps) + 1)

StartsWith(s, p) == Len(p) <= Len(s) /\ SubSeq(s, 1, Len(p)) = p

EndsWith(s, p) == Len(p) <= Len(s) /\ SubSeq(s, Len(s) - Len(p) + 1, Len(s)) = p

\* "sub in s"
Contains(s, sub) ==
  \E i \in 1..(Len(s) - Len(sub) + 1) : SubSeq(s, i, i + Len(sub) - 1) = sub

\* s.replace(old, new): leftmost non-overlapping occurrences (old non-empty)
RECURSIVE ReplaceFrom(_, _, _, _)
ReplaceFrom(s, old, new, i) ==
  LET occ == {p \in i..(Len(s) - Len(old) + 1) : SubSeq(s, p, p + Len(old) - 1) = old}
  IN IF occ = {} THEN SubSeq(s, i, Len(s))
     ELSE LET p == CHOOSE x \in occ : \A y \in occ : x <= y
          IN SubSeq(s, i, p - 1) \o new \o ReplaceFrom(s, old, new, p + Len(old))

Replace(s, old, new) == ReplaceFrom(s, old, new, 1)

\* the subsequence of s at the positions in keep, in order
KeepPositions(s, keep) ==
  LET rank == Tabulate([i \in 1..Len(s) |-> Cardinality({j \in keep : j <= i})],
                       Len(s))
  IN Tabulate([k \in 1..Cardinality(keep) |->
                 s[CHOOSE i \in keep : rank[i] = k]], Cardinality(keep))

\* re.sub(r"-+", "-", s)
CollapseHyphens(s) ==
  KeepPositions(s, {i \in 1..Len(s) : ~(s[i] = "-" /\ i > 1 /\ s[i - 1] = "-")})

\* s.strip("-")
StripHyphens(s) ==
  LET solid == {i \in 1..Len(s) : s[i] # "-"} IN
  IF solid = {} THEN <<>>
  ELSE SubSeq(s, CHOOSE i \in solid : \A j \in solid : i <= j,
                 CHOOSE i \in solid : \A j \in solid : i >= j)

\* str.isdigit() on ASCII text: non-empty and all digits
IsDigits(s) == Len(s) > 0 /\ \A i \in 1..Len(s) : s[i] \in DigitChars

\* the list [x for x in xs if keep(x)]
RECURSIVE FilterNonEmpty(_)
FilterNonEmpty(xs) ==
  IF Len(xs) = 0 THEN <<>>
  ELSE IF Len(xs[1]) = 0 THEN FilterNonEmpty(Tail(xs))
  ELSE <<xs[1]>> \o FilterNonEmpty(Tail(xs))

\* xs with the element at position i removed (list.pop(i), 1-based)
RemoveAt(xs, i) == SubSeq(xs, 1, i - 1) \o SubSeq(xs, i + 1, Len(xs))

(***************************************************************************)
(* Words used by the d-tag derivation.                                    *)
(***************************************************************************)
S_adoc == <<"a","d","o","c">>
S_old_testament == <<"o","l","d","-","t","e","s","t","a","m","e","n","t">>
S_new_testament == <<"n","e","w","-","t","e","s","t","a","m","e","n","t">>
S_according == <<"a","c","c","o","r","d","i","n","g">>
S_verse == <<"v","e","r","s","e">>
S_chapter == <<"c","h","a","p","t","e","r">>
S_section == <<"s","e","c","t","i","o","n">>
S_introduction == <<"i","n","t","r","o","d","u","c","t","i","o","n">>
S_book == <<"b","o","o","k">>
S_book_of == <<"b","o","o","k","-","o","f">>
S_book_of_the == <<"b","o","o","k","-","o","f","-","t","h","e">>
S_act == <<"a","c","t">>
S_ot == <<"o","t">>
S_nt == <<"n","t">>
S_acc == <<"a","c","c">>
S_v == <<"v">>
S_ch == <<"c","h">>
S_s == <<"s">>
S_intro == <<"i","n","t","r","o">>
S_bk == <<"b","k">>
S_a == <<"a">>
S_old == <<"o","l","d">>
S_new == <<"n","e","w">>
S_t == <<"t">>
S_the == <<"t","h","e">>
S_of == <<"o","f">>
S_to == <<"t","o">>
S_and == <<"a","n","d">>
S_an == <<"a","n">>
S_in == <<"i","n">>
S_on == <<"o","n">>
S_at == <<"a","t">>
S_for == <<"f","o","r">>
S_with == <<"w","i","t","h">>
S_by == <<"b","y">>
S_st == <<"s","t">>
S_saint == <<"s","a","i","n","t">>
S_gospel == <<"g","o","s","p","e","l">>
S_epistle == <<"e","p","i","s","t","l","e">>
S_prophecy == <<"p","r","o","p","h","e","c","y">>
S_psalm == <<"p","s","a","l","m">>
S_proverb == <<"p","r","o","v","e","r","b">>
S_kings == <<"k","i","n","g","s">>
S_machabees == <<"m","a","c","h","a","b","e","e","s">>
S_paralipomenon == <<"p","a","r","a","l","i","p","o","m","e","n","o","n">>
S_esdras == <<"e","s","d","r","a","s">>
S_corinthians == <<"c","o","r","i","n","t","h","i","a","n","s">>
S_thessalonians == <<"t","h","e","s","s","a","l","o","n","i","a","n","s">>
S_timothy == <<"t","i","m","o","t","h","y">>
S_titus == <<"t","i","t","u","s">>
S_peter == <<"p","e","t","e","r">>
S_john == <<"j","o","h","n">>
S_jude == <<"j","u","d","e">>
S_revelation == <<"r","e","v","e","l","a","t","i","o","n">>
S_apocalypse == <<"a","p","o","c","a","l","y","p","s","e">>
S_acts == <<"a","c","t","s">>
S_romans == <<"r","o","m","a","n","s">>
S_hebrews == <<"h","e","b","r","e","w","s">>
S_preamble == <<"p","r","e","a","m","b","l","e">>

(***************************************************************************)
(* util.slugify_strict                                                     *)
(***************************************************************************)
\* lower(), then NFKD + encode("ascii", "ignore"): a character without an
\* ASCII decomposition disappears, an accented letter keeps its base letter;
\* then every character outside [a-z0-9] becomes a hyphen.
SlugChar(c) ==
  LET l == LowerChar(c) IN
  IF l \in LowerChars \cup DigitChars THEN l
  ELSE IF l = "eacute" THEN "e"
  ELSE "-"

SlugChars(s) ==
  LET kept == KeepPositions(s, {i \in 1..Len(s) : LowerChar(s[i]) # "cjk"})
  IN Tabulate([i \in 1..Len(kept) |-> SlugChar(kept[i])], Len(kept))

slugify_strict(text) == StripHyphens(CollapseHyphens(SlugChars(text)))

(***************************************************************************)
(* util.compress_slug_parts                                                *)
(***************************************************************************)
\* p[:n]
Prefix(p, n) == SubSeq(p, 1, IF Len(p) < n THEN Len(p) ELSE n)

\* [ (p[:n] if i < len(filtered) - 2 else p) for i, p in enumerate(filtered) ]
Abbreviate(filtered, n) ==
  Tabulate([i \in 1..Len(filtered) |->
              IF i <= Len(filtered) - 2 THEN Prefix(filtered[i], n)
              ELSE filtered[i]], Len(filtered))

JoinHyphen(ps) == Join(ps, <<"-">>)

\* Step 4: drop parts from the left until the join fits, keeping the last two
RECURSIVE DropLeft(_, _)
DropLeft(filtered, max_len) ==
  IF Len(JoinHyphen(filtered)) > max_len /\ Len(filtered) > 2
  THEN DropLeft(Tail(filtered), max_len)
  ELSE filtered

\* Steps 1 to 4 on the non-empty parts
CompressFiltered(filtered, max_len) ==
  IF Len(filtered) = 0 THEN <<>>
  ELSE IF Len(JoinHyphen(filtered)) <= max_len THEN JoinHyphen(filtered)
  ELSE IF Len(filtered) > 2
       THEN IF Len(JoinHyphen(Abbreviate(filtered, 6))) <= max_len
            THEN JoinHyphen(Abbreviate(filtered, 6))
            ELSE IF Len(JoinHyphen(Abbreviate(filtered, 3))) <= max_len
            THEN JoinHyphen(Abbreviate(filtered, 3))
            ELSE JoinHyphen(DropLeft(Abbreviate(filtered, 3), max_len))
       ELSE JoinHyphen(DropLeft(filtered, max_len))

compress_slug_parts(parts, max_len) ==
  CompressFiltered(FilterNonEmpty(parts), max_len)

(***************************************************************************)
(* nkbip_bookstr._d_for                                                    *)
(***************************************************************************)
MaxDTagLen == 75

segment_abbrev_map ==
  (S_old_testament :> S_ot) @@ (S_new_testament :> S_nt) @@
  (S_according :> S_acc) @@ (S_verse :> S_v) @@ (S_chapter :> S_ch) @@
  (S_section :> S_s) @@ (S_introduction :> S_intro) @@ (S_book :> S_bk) @@
  (S_book_of :> S_bk) @@ (S_book_of_the :> S_bk) @@ (S_act :> S_a)

stop_words ==
  {S_the, S_of, S_to, S_and, S_a, S_an, S_in, S_on, S_at, S_for, S_with,
   S_by, S_st, S_saint}

book_title_keywords ==
  {S_gospel, S_book, S_epistle, S_prophecy, S_psalm, S_proverb, S_kings,
   S_machabees, S_paralipomenon, S_esdras, S_corinthians, S_thessalonians,
   S_timothy, S_titus, S_peter, S_john, S_jude, S_revelation, S_apocalypse,
   S_acts, S_romans, S_hebrews}

\* re.match(r'^\d+$', seg)
IsSingleNumber(seg) == IsDigits(seg)

\* re.match(r'^\d+(-\d+)+$', seg)
IsSectionNumber(seg) ==
  LET ws == Split(seg, "-") IN
  Len(ws) >= 2 /\ \A i \in 1..Len(ws) : IsDigits(ws[i])

\* norm = [slugify_strict(p) for p in parts if p], without "" and "adoc"
RECURSIVE NormParts(_)
NormParts(parts) ==
  IF Len(parts) = 0 THEN <<>>
  ELSE LET s == slugify_strict(parts[1]) IN
       IF Len(s) = 0 \/ s = S_adoc THEN NormParts(Tail(parts))
       ELSE <<s>> \o NormParts(Tail(parts))

\* the abbreviation applied to one word of a segment
AbbrevWord(word) ==
  IF word \in DOMAIN segment_abbrev_map THEN segment_abbrev_map[word]
  ELSE IF word = S_old THEN S_ot
  ELSE IF word = S_new THEN S_nt
  ELSE word

\* The loop over the words of one segment.  acc = [filtered, seen].
RECURSIVE ProcessWords(_, _, _, _, _, _)
ProcessWords(words, k, acc, is_book_title, is_middle, have_processed) ==
  IF k > Len(words) THEN acc
  ELSE
    LET word == AbbrevWord(words[k])
        is_number == IsDigits(word)
        next ==
          IF is_book_title
          THEN IF word \in stop_words /\ Len(word) <= 2
               THEN acc
               ELSE [acc EXCEPT !.filtered = Append(@, word)]
          ELSE IF is_middle /\ word \in stop_words
               THEN acc
          ELSE IF /\ word \in acc.seen /\ have_processed /\ ~is_number
                  /\ (word \in stop_words \/ Len(word) <= 2)
               THEN acc
          ELSE [filtered |-> Append(acc.filtered, word),
                seen |-> IF is_number THEN acc.seen ELSE acc.seen \cup {word}]
    IN ProcessWords(words, k + 1, next, is_book_title, is_middle, have_processed)

\* "ot" followed by "t", or "nt" followed by "t": drop the "t" at the first
\* such position only
MergeTestament(fw) ==
  LET hits == {j \in 1..(Len(fw) - 1) :
                 (fw[j] = S_ot \/ fw[j] = S_nt) /\ fw[j + 1] = S_t}
  IN IF hits = {} THEN fw
     ELSE LET j == CHOOSE x \in hits : \A y \in hits : x <= y
          IN RemoveAt(fw, j + 1)

\* The loop over norm (lines 161-259).
\* st = [processed, seen_words, book_title_indices]; indices are 1-based.
RECURSIVE ProcessSegments(_, _, _)
ProcessSegments(norm, i, st) ==
  IF i > Len(norm) THEN st
  ELSE
    LET segment == norm[i] IN
    IF IsSectionNumber(segment)
    THEN ProcessSegments(norm, i + 1,
           [st EXCEPT !.processed = Append(@, S_s \o <<"-">> \o segment)])
    ELSE IF IsSingleNumber(segment)
    THEN ProcessSegments(norm, i + 1,
           [st EXCEPT !.processed = Append(@, segment)])
    ELSE IF segment \in DOMAIN segment_abbrev_map
    THEN ProcessSegments(norm, i + 1,
           [st EXCEPT !.processed = Append(@, segment_abbrev_map[segment]),
                      !.seen_words = @ \cup {segment_abbrev_map[segment]}])
    ELSE
      LET is_book_title == \E kw \in book_title_keywords : Contains(segment, kw)
          seg2 == IF Contains(segment, S_old_testament)
                  THEN Replace(segment, S_old_testament, S_ot)
                  ELSE IF Contains(segment, S_new_testament)
                  THEN Replace(segment, S_new_testament, S_nt)
                  ELSE segment
          words == Split(seg2, "-")
          res == ProcessWords(words, 1,
                   [filtered |-> <<>>, seen |-> st.seen_words],
                   is_book_title, i > 1 /\ i < Len(norm),
                   Len(st.processed) > 0)
          filtered_words == MergeTestament(res.filtered)
          processed_segment ==
            StripHyphens(CollapseHyphens(JoinHyphen(filtered_words)))
          emit == Len(filtered_words) > 0 /\ Len(processed_segment) > 0
      IN ProcessSegments(norm, i + 1,
           [processed |-> IF emit THEN Append(st.processed, processed_segment)
                          ELSE st.processed,
            seen_words |-> res.seen,
            book_title_indices |->
              IF emit /\ is_book_title
              THEN st.book_title_indices \cup {Len(st.processed) + 1}
              ELSE st.book_title_indices])

\* Pass 1 and Pass 4: remove exact duplicate consecutive segments
RECURSIVE RemoveConsecutiveDuplicates(_, _)
RemoveConsecutiveDuplicates(processed, i) ==
  IF i >= Len(processed) THEN processed
  ELSE IF processed[i] = processed[i + 1]
       THEN RemoveConsecutiveDuplicates(RemoveAt(processed, i), i)
       ELSE RemoveConsecutiveDuplicates(processed, i + 1)

\* book_title_indices after processed.pop(p): {idx - 1 if idx > p else idx}
ShiftIndices(bti, p) == {IF idx > p THEN idx - 1 ELSE idx : idx \in bti}

\* Pass 2: remove a one-word segment that the neighbouring segment repeats.
\* st = [processed, book_title_indices]
RECURSIVE RemovePrefixSegments(_, _)
RemovePrefixSegments(st, i) ==
  IF i >= Len(st.processed) THEN st
  ELSE
    LET current == st.processed[i]
        next_seg == st.processed[i + 1]
    IN IF i \in st.book_title_indices \/ (i + 1) \in st.book_title_indices
       THEN RemovePrefixSegments(st, i + 1)
       ELSE IF Len(Split(current, "-")) = 1
               /\ StartsWith(next_seg, current \o <<"-">>)
       THEN RemovePrefixSegments(
              [processed |-> RemoveAt(st.processed, i),
               book_title_indices |-> ShiftIndices(st.book_title_indices, i)], i)
       ELSE IF Len(Split(next_seg, "-")) = 1
               /\ EndsWith(current, <<"-">> \o next_seg)
       THEN RemovePrefixSegments(
              [processed |-> RemoveAt(st.processed, i + 1),
               book_title_indices |->
                 ShiftIndices(st.book_title_indices, i + 1)], i)
       ELSE RemovePrefixSegments(st, i + 1)

\* Pass 3: remove a word repeated across a segment boundary
RECURSIVE RemoveBoundaryWords(_, _)
RemoveBoundaryWords(st, i) ==
  IF i >= Len(st.processed) THEN st
  ELSE
    IF i \in st.book_title_indices \/ (i + 1) \in st.book_title_indices
    THEN RemoveBoundaryWords(st, i + 1)
    ELSE
      LET current_words == Split(st.processed[i], "-")
          next_words == Split(st.processed[i + 1], "-")
          last_word == current_words[Len(current_words)]
          first_word == next_words[1]
      IN IF /\ ~IsDigits(last_word) /\ ~IsDigits(first_word)
            /\ last_word = first_word /\ Len(last_word) > 2
         THEN IF Len(next_words) > 1
              THEN RemoveBoundaryWords(
                     [st EXCEPT !.processed[i + 1] =
                        JoinHyphen(Tail(next_words))], i + 1)
              ELSE RemoveBoundaryWords(
                     [processed |-> RemoveAt(st.processed, i + 1),
                      book_title_indices |->
                        ShiftIndices(st.book_title_indices, i + 1)], i)
         ELSE RemoveBoundaryWords(st, i + 1)

\* re.match(r"^(?P<book>.+)-chapter-\d+$", penult): TRUE with the book group
ChapterSuffixMatch(penult) ==
  LET ws == Split(penult, "-")
      n == Len(ws)
  IN /\ n >= 3
     /\ IsDigits(ws[n])
     /\ ws[n - 1] = S_chapter
     /\ Len(JoinHyphen(SubSeq(ws, 1, n - 2))) > 0

ChapterSuffixBook(penult) ==
  LET ws == Split(penult, "-") IN JoinHyphen(SubSeq(ws, 1, Len(ws) - 2))

\* re.match(r"^\d+(?:-\d+.*)?$", last)
VerseTailMatch(last) ==
  /\ Len(last) > 0 /\ last[1] \in DigitChars
  /\ LET k == CHOOSE j \in 1..Len(last) :
               /\ \A m \in 1..j : last[m] \in DigitChars
               /\ (j = Len(last) \/ last[j + 1] \notin DigitChars)
     IN \/ k = Len(last)
        \/ (k + 2 <= Len(last) /\ last[k + 1] = "-" /\ last[k + 2] \in DigitChars)

\* Bible-like tail compression (lines 355-363)
TailCompress(processed) ==
  LET n == Len(processed) IN
  IF n >= 2 /\ ChapterSuffixMatch(processed[n - 1]) /\ VerseTailMatch(processed[n])
  THEN [processed EXCEPT ![n - 1] = ChapterSuffixBook(processed[n - 1])]
  ELSE processed

\* Final cleanup (lines 365-375)
RECURSIVE CleanParts(_)
CleanParts(processed) ==
  IF Len(processed) = 0 THEN <<>>
  ELSE LET cleaned == StripHyphens(CollapseHyphens(processed[1])) IN
       IF Len(cleaned) > 0 THEN <<cleaned>> \o CleanParts(Tail(processed))
       ELSE CleanParts(Tail(processed))

\* Final cleanup, compression and normalization (lines 365-382)
Finish(tail, cleaned) ==
  StripHyphens(CollapseHyphens(
    compress_slug_parts(IF Len(cleaned) = 0 THEN tail ELSE cleaned, MaxDTagLen)))

FinishTail(tail) == Finish(tail, CleanParts(tail))

\* The duplicate-removal passes and the tail compression (lines 265-363)
RemovePasses(norm, seg) ==
  TailCompress(
    RemoveConsecutiveDuplicates(
      RemoveBoundaryWords(
        RemovePrefixSegments(
          [processed |->
             RemoveConsecutiveDuplicates(
               IF Len(seg.processed) = 0 THEN norm ELSE seg.processed, 1),
           book_title_indices |-> seg.book_title_indices], 1), 1).processed, 1))

DForOfNorm(norm) ==
  IF Len(norm) = 0 THEN <<>>
  ELSE FinishTail(RemovePasses(norm,
         ProcessSegments(norm, 1,
           [processed |-> <<>>, seen_words |-> {}, book_title_indices |-> {}])))

\* _d_for(*parts): parts is the tuple of arguments, empty arguments included
d_for_compute(parts) == DForOfNorm(NormParts(parts))

(***************************************************************************)
(* Inputs of the compiler: collection ids and the leaves (SectionEntry)    *)
(* the heading-tree parser can hand over.  A leaf is its title path and    *)
(* its level path; the content of the leaf arriving at position n is the   *)
(* text n.                                                                 *)
(***************************************************************************)
T_Bible == <<"B","i","b","l","e">>

T_Genesis == <<"G","e","n","e","s","i","s">>

T_GenesisChapter1 == <<"G","e","n","e","s","i","s"," ","C","h","a","p","t","e","r"," ","1">>

T_GenesisChapter2 == <<"G","e","n","e","s","i","s"," ","C","h","a","p","t","e","r"," ","2">>

T_1_1 == <<"1",":","1">>

T_1_2 == <<"1",":","2">>

T_1sp1 == <<"1"," ","1">>

T_2_1 == <<"2",":","1">>

T_Preamble == <<"P","r","e","a","m","b","l","e">>

T_LongChapter == <<"T","h","e"," ","S","e","c","o","n","d"," ","E","p","i","s","t","l","e"," ","o","f"," ","B","l","e","s","s","e","d"," ","P","a","u","l"," ","t","h","e"," ","A","p","o","s","t","l","e"," ","t","o"," ","t","h","e"," ","T","h","e","s","s","a","l","o","n","i","a","n","s"," ","w","i","t","h"," ","C","o","m","m","e","n","t","a","r","y"," ","C","h","a","p","t","e","r"," ","1">>

T_Kanji == <<"cjk","cjk">>

ID_bible == <<"b","i","b","l","e">>

MaxLeaves == 3

CollectionIds == {ID_bible, T_Kanji}

Leaf(titles, levels) == [path_titles |-> titles, path_levels |-> levels]

CandidateLeaves ==
  { Leaf(<<T_Bible, T_Genesis, T_GenesisChapter1, T_1_1>>, <<1, 2, 3, 4>>),
    Leaf(<<T_Bible, T_Genesis, T_GenesisChapter1, T_1_2>>, <<1, 2, 3, 4>>),
    Leaf(<<T_Bible, T_Genesis, T_GenesisChapter1, T_1sp1>>, <<1, 2, 3, 4>>),
    Leaf(<<T_Bible, T_Genesis, T_GenesisChapter2, T_2_1>>, <<1, 2, 3, 4>>),
    Leaf(<<T_Bible, T_Genesis>>, <<1, 2>>),
    Leaf(<<T_Bible, T_Genesis, T_Preamble, T_1_1>>, <<1, 2, 3, 4>>),
    Leaf(<<T_Bible, T_Genesis, T_1_1>>, <<1, 2, 4>>),
    Leaf(<<T_Bible, T_LongChapter, T_1_1>>, <<1, 3, 4>>),
    Leaf(<<T_Kanji>>, <<4>>) }

LeafLevel(leaf) == leaf.path_levels[Len(leaf.path_levels)]

\* parse_adoc_structure: section_level is the deepest level that has content
SectionLevels == {LeafLevel(l) : l \in CandidateLeaves}

\* titles[:n]
Take(xs, n) == SubSeq(xs, 1, n)

\* leaves with an ancestor between the chapter and the verse, and with two
\* ancestors named chapter
DeepLeaves ==
  { Leaf(<<T_Bible, T_Genesis, T_GenesisChapter1, T_Preamble, T_1_1>>,
         <<1, 2, 3, 4, 5>>),
    Leaf(<<T_Bible, T_GenesisChapter1, T_GenesisChapter2, T_2_1>>,
         <<1, 2, 3, 4>>) }

PathLeaves == CandidateLeaves \cup DeepLeaves

\* every argument tuple _d_for is called with in this model
DForArguments ==
  UNION { { <<cid>> \o Take(l.path_titles, n) : n \in 1..Len(l.path_titles) } :
            cid \in CollectionIds, l \in PathLeaves }

\* The values of _d_for on those arguments, computed once
DForTable == [parts \in DForArguments |-> d_for_compute(parts)]

d_for(parts) == DForTable[parts]

(***************************************************************************)
(* nkbip_bookstr.serialize_bookstr                                         *)
(***************************************************************************)
KindIndex == 30040

KindContent == 30041

Event(kind, tags, content) == [kind |-> kind, tags |-> tags, content |-> content]

\* a Python dict: d[k] = v
Put(f, k, v) == [x \in (DOMAIN f) \cup {k} |-> IF x = k THEN v ELSE f[x]]

EmptyDict == [x \in {} |-> x]

\* the value of the first tag named name, or <<>> (None) when there is none
FirstTag(tags, name) ==
  LET hits == {i \in 1..Len(tags) : tags[i][1] = name} IN
  IF hits = {} THEN <<>>
  ELSE tags[CHOOSE i \in hits : \A j \in hits : i <= j][2]

HasTag(tags, name) == \E i \in 1..Len(tags) : tags[i][1] = name

DTagOf(event) == FirstTag(event.tags, "d")

\* The state serialize_bookstr starts with (lines 404-409, 791, 826);
\* verse_d is the loop's local of that name
InitialCompilerState ==
  [events |-> <<>>, emitted |-> {}, emitted_verse_d_tags |-> {},
   d_tag_to_parent_d |-> EmptyDict, parent_section_count |-> EmptyDict,
   d_tag_to_event_type |-> EmptyDict, parent_d_to_children |-> EmptyDict,
   book_d_to_preamble_d |-> EmptyDict, verse_d |-> <<>>]

\* ds[k] = _d_for(collection_id, *titles[:k]) for every prefix of the path:
\* the d-tags serialize_bookstr derives while it handles one entry
PathDTags(cid, titles) ==
  Tabulate([k \in 1..Len(titles) |-> d_for(<<cid>> \o Take(titles, k))],
           Len(titles))

\* emit_index(d_path, title, is_collection_root, is_book, is_chapter) with
\* d_path = titles[:k] (lines 411-556)
emit_index(s, ds, k, title, is_collection_root, is_book, is_chapter) ==
  IF ds[k] \in s.emitted THEN s
  ELSE
    [s EXCEPT
       !.emitted = @ \cup {ds[k]},
       !.d_tag_to_parent_d = IF k > 1 THEN Put(@, ds[k], ds[k - 1]) ELSE @,
       !.d_tag_to_event_type =
          IF is_book THEN Put(@, ds[k], "book")
          ELSE IF is_chapter THEN Put(@, ds[k], "chapter")
          ELSE IF is_collection_root THEN Put(@, ds[k], "collection")
          ELSE @,
       !.events = Append(@, Event(KindIndex,
                     <<<<"d", ds[k]>>, <<"title", title>>>>, <<>>))]

\* for i in range(lo, hi): emit_index(titles[:i+1], titles[i], is_collection_root=(i == 0))
\* with 1-based positions lo..hi
RECURSIVE EmitCollectionIndexes(_, _, _, _, _)
EmitCollectionIndexes(s, ds, titles, i, hi) ==
  IF i > hi THEN s
  ELSE EmitCollectionIndexes(
         emit_index(s, ds, i, titles[i], i = 1, FALSE, FALSE),
         ds, titles, i + 1, hi)

\* The parent d-tag of content at a non-verse level (lines 593-597):
\* _d_for(collection_id, *titles[:-1]), or _d_for(collection_id, titles[0])
SectionParentDTag(ds) == IF Len(ds) > 1 THEN ds[Len(ds) - 1] ELSE ds[1]

\* The key of parent_section_count (lines 601-603)
SectionParentKey(parent_d_tag, cid) ==
  IF Len(parent_d_tag) > 0 THEN parent_d_tag ELSE cid

\* section_num (lines 603-604) for the next content under this parent
NextSectionNum(s, key) ==
  IF key \in DOMAIN s.parent_section_count
  THEN s.parent_section_count[key] + 1 ELSE 1

\* verse_d = f"{parent_d_tag}-section-{section_num}" (line 606)
SectionContentDTag(key, section_num) ==
  key \o <<"-","s","e","c","t","i","o","n","-">> \o IntToStr(section_num)

\* The content record of a non-verse level, unless its d-tag was already
\* emitted (lines 608-678)
EmitSectionContent(s, section_d, parent_d_tag, title, content) ==
  IF section_d \in s.emitted_verse_d_tags THEN [s EXCEPT !.verse_d = section_d]
  ELSE [s EXCEPT
          !.verse_d = section_d,
          !.emitted_verse_d_tags = @ \cup {section_d},
          !.d_tag_to_parent_d =
             IF Len(parent_d_tag) > 0 THEN Put(@, section_d, parent_d_tag) ELSE @,
          !.events = Append(@, Event(KindContent,
                        <<<<"d", section_d>>, <<"title", title>>>>, content))]

\* The section counter and the content record (lines 599-678)
CountSectionContent(s, parent_d_tag, key, title, content) ==
  EmitSectionContent(
    [s EXCEPT !.parent_section_count = Put(@, key, NextSectionNum(s, key))],
    SectionContentDTag(key, NextSectionNum(s, key)),
    parent_d_tag, title, content)

\* Content at a level other than the verse level (lines 572-678)
ProcessSectionContent(s, cid, ds, entry, content) ==
  CountSectionContent(
    IF Len(ds) > 1
    THEN EmitCollectionIndexes(s, ds, entry.path_titles, 1, Len(ds) - 1)
    ELSE emit_index(s, ds, 1, entry.path_titles[1], TRUE, FALSE, FALSE),
    SectionParentDTag(ds),
    SectionParentKey(SectionParentDTag(ds), cid),
    entry.path_titles[Len(ds)], content)

\* the nearest ancestor whose title contains "chapter", else the last
\* ancestor before the leaf (lines 684-692), as a 1-based position
ChapterIdx(titles) ==
  LET leaf_idx == Len(titles)
      hits == {i \in 1..(leaf_idx - 1) : Contains(Lower(titles[i]), S_chapter)}
  IN IF hits # {} THEN CHOOSE i \in hits : \A j \in hits : i >= j
     ELSE IF leaf_idx - 1 >= 1 THEN leaf_idx - 1 ELSE 1

\* book_idx = max(0, chapter_idx - 1) (line 694), 1-based
BookIdx(chapter_idx) == IF chapter_idx - 1 >= 1 THEN chapter_idx - 1 ELSE 1

\* The verse is emitted whether or not its d-tag was emitted before
EmitVerseContentAlways(s, leaf_d, chapter_d, title, content) ==
  [s EXCEPT
     !.verse_d = leaf_d,
     !.emitted_verse_d_tags = @ \cup {leaf_d},
     !.d_tag_to_parent_d = Put(@, leaf_d, chapter_d),
     !.events = Append(@, Event(KindContent,
                   <<<<"d", leaf_d>>, <<"title", title>>>>, content))]

\* The verse is emitted once: a d-tag already emitted is skipped, else the
\* content record is appended (lines 707-787)
EmitVerseContent(s, leaf_d, chapter_d, title, content) ==
  IF leaf_d \in s.emitted_verse_d_tags THEN [s EXCEPT !.verse_d = leaf_d]
  ELSE [s EXCEPT
          !.verse_d = leaf_d,
          !.emitted_verse_d_tags = @ \cup {leaf_d},
          !.d_tag_to_parent_d = Put(@, leaf_d, chapter_d),
          !.events = Append(@, Event(KindContent,
                        <<<<"d", leaf_d>>, <<"title", title>>>>, content))]

\* The indexes of a verse path and the verse (lines 696-787)
EmitVersePath(s, ds, titles, book_idx, chapter_idx, content) ==
  EmitVerseContent(
    emit_index(
      emit_index(EmitCollectionIndexes(s, ds, titles, 1, book_idx - 1),
                 ds, book_idx, titles[book_idx], FALSE, TRUE, FALSE),
      ds, chapter_idx, titles[chapter_idx], FALSE, FALSE, TRUE),
    ds[Len(titles)], ds[chapter_idx], titles[Len(titles)], content)

\* Standard book / chapter / verse structure (lines 680-787)
ProcessVerse(s, ds, entry, content) ==
  EmitVersePath(s, ds, entry.path_titles,
                BookIdx(ChapterIdx(entry.path_titles)),
                ChapterIdx(entry.path_titles), content)

\* One iteration with the d-tags of the entry's path
ProcessEntryWith(s, cid, verse_level, entry, content, ds) ==
  IF LeafLevel(entry) # verse_level
  THEN ProcessSectionContent(s, cid, ds, entry, content)
  ELSE ProcessVerse(s, ds, entry, content)

\* One iteration of "for entry in tree.sections" (lines 559-787)
ProcessEntry(s, cid, verse_level, entry, content) ==
  ProcessEntryWith(s, cid, verse_level, entry, content,
                   PathDTags(cid, entry.path_titles))


\* a child entry (child_kind, child_d_tag) appended to the list of parent_d
AddChild(children, parent_d, kind, d) ==
  Put(children, parent_d,
      IF parent_d \in DOMAIN children THEN Append(children[parent_d], <<kind, d>>)
      ELSE <<<<kind, d>>>>)

\* Build parent -> children mapping (lines 791-816), from event i on
RECURSIVE BuildChildren(_, _)
BuildChildren(s, i) ==
  IF i > Len(s.events) THEN s
  ELSE
    LET event == s.events[i]
        d_tag == DTagOf(event)
        tag_parent == FirstTag(event.tags, "_parent_d")
        c1 == IF Len(d_tag) > 0 /\ Len(tag_parent) > 0
              THEN AddChild(s.parent_d_to_children, tag_parent, event.kind, d_tag)
              ELSE s.parent_d_to_children
        mapped == Len(d_tag) > 0 /\ d_tag \in DOMAIN s.d_tag_to_parent_d
        parent_d == s.d_tag_to_parent_d[d_tag]
    IN BuildChildren(
         [s EXCEPT
            !.events[i].tags = IF mapped THEN Append(@, <<"_parent_d", parent_d>>) ELSE @,
            !.parent_d_to_children =
               IF mapped THEN AddChild(c1, parent_d, event.kind, d_tag) ELSE c1],
         i + 1)

PLACEHOLDER_PUBKEY == [i \in 1..64 |-> "0"]

S_preamble_suffix == <<"-">> \o S_preamble

\* The direct kind-30041 children recorded for d_tag
Direct30041Children(s, d_tag) ==
  SelectSeq(s.parent_d_to_children[d_tag], LAMBDA c : c[1] = KindContent)

\* tags with the first _parent_d tag replaced, or one appended (lines 911-917)
SetParentTag(tags, parent_d) ==
  LET hits == {i \in 1..Len(tags) : tags[i][1] = "_parent_d"} IN
  IF hits = {} THEN Append(tags, <<"_parent_d", parent_d>>)
  ELSE [tags EXCEPT ![CHOOSE i \in hits : \A j \in hits : i <= j] =
          <<"_parent_d", parent_d>>]

\* Re-parent one child under the Preamble (lines 900-934): the first event
\* carrying the child's d-tag gets the new _parent_d
ReparentChild(s, book_d, preamble_d, child) ==
  LET hits == {i \in 1..Len(s.events) : DTagOf(s.events[i]) = child[2]} IN
  IF hits = {} THEN s
  ELSE
    LET i == CHOOSE x \in hits : \A y \in hits : x <= y
        c1 == IF book_d \in DOMAIN s.parent_d_to_children
              THEN [s.parent_d_to_children EXCEPT ![book_d] =
                      SelectSeq(@, LAMBDA c : ~(c[1] = child[1] /\ c[2] = child[2]))]
              ELSE s.parent_d_to_children
    IN [s EXCEPT
          !.events[i].tags = SetParentTag(@, preamble_d),
          !.d_tag_to_parent_d = Put(@, child[2], preamble_d),
          !.parent_d_to_children = AddChild(c1, preamble_d, child[1], child[2])]

RECURSIVE ReparentChildren(_, _, _, _, _)
ReparentChildren(s, book_d, preamble_d, direct, k) ==
  IF k > Len(direct) THEN s
  ELSE ReparentChildren(ReparentChild(s, book_d, preamble_d, direct[k]),
                        book_d, preamble_d, direct, k + 1)

\* Create the Preamble chapter of one book (lines 848-934)
CreatePreamble(s, d_tag) ==
  LET preamble_d == d_tag \o S_preamble_suffix
      direct == Direct30041Children(s, d_tag)
      s1 == [s EXCEPT
               !.book_d_to_preamble_d = Put(@, d_tag, preamble_d),
               !.d_tag_to_parent_d = Put(@, preamble_d, d_tag),
               !.d_tag_to_event_type = Put(@, preamble_d, "chapter"),
               !.events = Append(@, Event(KindIndex,
                             <<<<"d", preamble_d>>, <<"title", T_Preamble>>>>, <<>>))]
  IN ReparentChildren(s1, d_tag, preamble_d, direct, 1)

\* dict.get(d_tag, "unknown")
EventType(s, d_tag) ==
  IF d_tag \in DOMAIN s.d_tag_to_event_type THEN s.d_tag_to_event_type[d_tag]
  ELSE "unknown"

\* First pass (lines 828-934): "for event in events" also visits the
\* Preamble events appended while it runs
RECURSIVE PreamblePass(_, _)
PreamblePass(s, i) ==
  IF i > Len(s.events) THEN s
  ELSE
    LET event == s.events[i]
        d_tag == DTagOf(event)
    IN IF /\ event.kind = KindIndex
          /\ Len(d_tag) > 0
          /\ d_tag \in DOMAIN s.parent_d_to_children
          /\ EventType(s, d_tag) = "book"
          /\ Len(Direct30041Children(s, d_tag)) > 0
       THEN PreamblePass(CreatePreamble(s, d_tag), i + 1)
       ELSE PreamblePass(s, i + 1)

\* ["a", "<kind>:<pubkey>:<d-tag>", "", ""]
ATag(kind, pubkey, d) ==
  <<"a", IntToStr(kind) \o <<":">> \o pubkey \o <<":">> \o d, <<>>, <<>>>>

\* the a-tags of the children of one index event (lines 948-962)
RECURSIVE ChildATags(_, _, _)
ChildATags(children, event_type, k) ==
  IF k > Len(children) THEN <<>>
  ELSE IF event_type = "book" /\ children[k][1] = KindContent
       THEN ChildATags(children, event_type, k + 1)
       ELSE <<ATag(children[k][1], PLACEHOLDER_PUBKEY, children[k][2])>>
            \o ChildATags(children, event_type, k + 1)

\* Second pass (lines 936-968)
RECURSIVE ATagPass(_, _)
ATagPass(s, i) ==
  IF i > Len(s.events) THEN s
  ELSE
    LET event == s.events[i]
        d_tag == DTagOf(event)
        child_tags ==
          IF Len(d_tag) > 0 /\ d_tag \in DOMAIN s.parent_d_to_children
          THEN ChildATags(s.parent_d_to_children[d_tag], EventType(s, d_tag), 1)
          ELSE <<>>
        preamble_tags ==
          IF d_tag \in DOMAIN s.book_d_to_preamble_d
          THEN <<ATag(KindIndex, PLACEHOLDER_PUBKEY, s.book_d_to_preamble_d[d_tag])>>
          ELSE <<>>
    IN IF event.kind = KindIndex
       THEN ATagPass([s EXCEPT !.events[i].tags = @ \o child_tags \o preamble_tags],
                     i + 1)
       ELSE ATagPass(s, i + 1)

\* serialize_bookstr on a whole tree: sections is the list of leaves
RECURSIVE ProcessEntries(_, _, _, _, _)
ProcessEntries(s, cid, verse_level, entries, i) ==
  IF i > Len(entries) THEN s
  ELSE ProcessEntries(ProcessEntry(s, cid, verse_level, entries[i], IntToStr(i)),
                      cid, verse_level, entries, i + 1)

serialize_bookstr(entries, verse_level, cid) ==
  ATagPass(
    PreamblePass(
      BuildChildren(
        ProcessEntries(InitialCompilerState, cid, verse_level,
                       entries, 1), 1), 1), 1).events

(***************************************************************************)
(* commands.generate.cmd_generate: the duplicate d-tag check and the event *)
(* counts it prints (lines 110-144)                                        *)
(***************************************************************************)
\* events whose first d-tag was already seen on an earlier event
DuplicateDTags(evs) ==
  {idx \in 1..Len(evs) :
     /\ Len(DTagOf(evs[idx])) > 0
     /\ \E j \in 1..(idx - 1) : DTagOf(evs[j]) = DTagOf(evs[idx])}

CountKind(evs, kind) == Cardinality({i \in 1..Len(evs) : evs[i].kind = kind})

GenerateSummary(evs) ==
  [duplicate_d_tags |-> Cardinality(DuplicateDTags(evs)),
   total |-> Len(evs),
   index_count |-> CountKind(evs, KindIndex),
   content_count |-> CountKind(evs, KindContent)]
(***************************************************************************)
(* util.normalize_secret_key_to_hex                                        *)
(***************************************************************************)
HexLowerChars == DigitChars \cup {"a","b","c","d","e","f"}

HexChars == HexLowerChars \cup {"A","B","C","D","E","F"}

WhitespaceChars == {" ", "\t", "\n", "\r"}

\* str.strip()
Strip(s) ==
  LET solid == {i \in 1..Len(s) : s[i] \notin WhitespaceChars} IN
  IF solid = {} THEN <<>>
  ELSE SubSeq(s, CHOOSE i \in solid : \A j \in solid : i <= j,
                 CHOOSE i \in solid : \A j \in solid : i >= j)

\* a string of n copies of c
Repeat(c, n) == Tabulate([i \in 1..n |-> c], n)

KeyHexLen == 64

\* the key 00..01 as lowercase hex
PrivOne == Repeat("0", KeyHexLen - 1) \o <<"1">>

\* the key ab00..00
PrivAB == <<"a","b">> \o Repeat("0", KeyHexLen - 2)

\* the bech32 encoding of PrivOne under the prefix "nsec"
NsecOne ==
  <<"n","s","e","c","1">> \o Repeat("q", 51)
    \o <<"s","m","h","l","t","g","l">>

\* the same with a wrong checksum
NsecBadChecksum ==
  <<"n","s","e","c","1">> \o Repeat("q", 51)
    \o <<"s","m","h","l","t","g","q">>

\* results of a call that returns a value or raises
Ok(v) == [ok |-> TRUE, value |-> v]

Raise(e) == [ok |-> FALSE, error |-> e]

\* _bech32_decode_nsec: the raw key as hex, or None.  The bech32 library is
\* outside the repository: the strings it decodes are tabulated.
bech32_decode_nsec(nsec) ==
  IF nsec = NsecOne THEN Ok(PrivOne) ELSE Raise("None")

\* _HEX_RE.match(key)
HEX_RE_match(key) == Len(key) > 0 /\ \A i \in 1..Len(key) : key[i] \in HexChars

\* len(binascii.unhexlify(key)) for hex text, or an error on odd length
unhexlify_len(key) ==
  IF Len(key) % 2 = 1 THEN Raise("Odd-length string") ELSE Ok(Len(key) \div 2)

\* a normalization that pads or cuts hex text to 64 characters
normalize_secret_key_lenient(key0) ==
  LET key == Strip(key0) IN
  IF StartsWith(key, <<"n","s","e","c">>)
  THEN IF bech32_decode_nsec(key).ok
       THEN Ok(bech32_decode_nsec(key).value)
       ELSE Raise("Invalid nsec bech32 secret key")
  ELSE IF ~HEX_RE_match(key)
  THEN Raise("Secret key must be bech32 nsec... or hex")
  ELSE Ok(Lower(SubSeq(key \o Repeat("1", KeyHexLen), 1, KeyHexLen)))

normalize_secret_key_to_hex(key0) ==
  LET key == Strip(key0) IN
  IF StartsWith(key, <<"n","s","e","c">>)
  THEN IF bech32_decode_nsec(key).ok
       THEN Ok(bech32_decode_nsec(key).value)
       ELSE Raise("Invalid nsec bech32 secret key")
  ELSE IF ~HEX_RE_match(key)
  THEN Raise("Secret key must be bech32 nsec... or hex")
  ELSE IF Len(key) # KeyHexLen
  THEN IF ~unhexlify_len(key).ok THEN Raise("Invalid hex secret key")
       ELSE IF unhexlify_len(key).value # 32
       THEN Raise("Hex secret key must be 32 bytes (64 hex chars)")
       ELSE Ok(Lower(key))
  ELSE Ok(Lower(key))

(***************************************************************************)
(* nostr_client: keys, ids and signatures.  secp256k1 and SHA-256 are      *)
(* outside the repository: the public key is an injective image of the     *)
(* private key, a digest is the tagged message, and a signature records    *)
(* the signing key and the digest signed.                                  *)
(***************************************************************************)
HexSeq == <<"0","1","2","3","4","5","6","7","8","9","a","b","c","d","e","f">>

HexValue(c) == CHOOSE i \in 1..16 : HexSeq[i] = c

\* secp256k1.PrivateKey(raw) rejects the zero key
ValidPrivateKey(privkey_hex) ==
  /\ Len(privkey_hex) = KeyHexLen
  /\ \E i \in 1..Len(privkey_hex) : privkey_hex[i] # "0"

\* _derive_pubkey(privkey_hex): the x-coordinate as 64 hex characters
derive_pubkey(privkey_hex) ==
  Tabulate([i \in 1..Len(privkey_hex) |->
              HexSeq[((HexValue(privkey_hex[i]) + 6) % 16) + 1]],
           Len(privkey_hex))

Sha256(message) == <<"sha256", message>>

\* json.dumps([0, pubkey, created_at, kind, tags, content])
Serialize(pubkey, created_at, kind, tags, content) ==
  <<0, pubkey, created_at, kind, tags, content>>

\* an id that does not cover the tags
compute_event_id_without_tags(event_json) ==
  Sha256(Serialize(event_json.pubkey, event_json.created_at, event_json.kind,
                   <<>>, event_json.content))

\* _compute_event_id(event_json)
compute_event_id(event_json) ==
  Sha256(Serialize(event_json.pubkey, event_json.created_at, event_json.kind,
                   event_json.tags, event_json.content))

\* _sign_event(event_json, privkey_hex)
sign_event(event_json, privkey_hex) ==
  [signer |-> derive_pubkey(privkey_hex),
   message_hash |-> Sha256(Serialize(derive_pubkey(privkey_hex),
                                     event_json.created_at, event_json.kind,
                                     event_json.tags, event_json.content))]

(***************************************************************************)
(* nostr_client.publish_events_ndjson: loading and tag rewriting           *)
(***************************************************************************)
\* d_tag = tag[1] if len(tag) > 1 else None, for the last tag named name;
\* <<>> stands for None and for the empty string (both are falsy)
LastTag(tags, name) ==
  LET hits == {i \in 1..Len(tags) : Len(tags[i]) > 0 /\ tags[i][1] = name} IN
  IF hits = {} THEN <<>>
  ELSE LET tag == tags[CHOOSE i \in hits : \A j \in hits : i >= j]
       IN IF Len(tag) > 1 THEN tag[2] ELSE <<>>

\* s.split(":", 2): at most three pieces
SplitColon2(s) ==
  LET parts == Split(s, ":") IN
  IF Len(parts) <= 3 THEN parts
  ELSE <<parts[1], parts[2], Join(SubSeq(parts, 3, Len(parts)), <<":">>)>>

\* f"{child_kind}:{pub_hex}:{child_d}"
AddressValue(child_kind, pubkey, child_d) ==
  child_kind \o <<":">> \o pubkey \o <<":">> \o child_d

\* parent d-tag -> [(kind, d-tag)] from the _parent_d tags (lines 90-114)
RECURSIVE LoadChildren(_, _, _)
LoadChildren(data, i, children) ==
  IF i > Len(data) THEN children
  ELSE LET d_tag == LastTag(data[i].tags, "d")
           parent_d == LastTag(data[i].tags, "_parent_d")
       IN LoadChildren(data, i + 1,
            IF Len(d_tag) > 0 /\ Len(parent_d) > 0
            THEN Put(children, parent_d,
                     (IF parent_d \in DOMAIN children THEN children[parent_d]
                      ELSE <<>>) \o <<<<data[i].kind, d_tag>>>>)
            ELSE children)

\* the loop over one record's tags (lines 125-149)
RECURSIVE RewriteTags(_, _, _)
RewriteTags(tags, i, pubkey) ==
  IF i > Len(tags) THEN <<>>
  ELSE LET tag == tags[i]
           rest == RewriteTags(tags, i + 1, pubkey)
       IN IF Len(tag) = 0 THEN rest
          ELSE IF tag[1] = "_parent_d" THEN rest
          ELSE IF tag[1] = "a"
          THEN LET a_value == IF Len(tag) > 1 THEN tag[2] ELSE <<>>
                   parts == SplitColon2(a_value)
               IN IF Len(parts) = 3
                  THEN <<<<"a", AddressValue(parts[1], pubkey, parts[3])>>>> \o rest
                  ELSE <<tag>> \o rest
          ELSE <<tag>> \o rest

\* a-tags for the children of an index record that has none (lines 153-158)
ChildAddressTags(children, pubkey) ==
  Tabulate([k \in 1..Len(children) |->
              <<"a", AddressValue(IntToStr(children[k][1]), pubkey, children[k][2])>>],
           Len(children))

\* data["tags"] after the rewrite (lines 119-160)
NewTags(data, children, pubkey) ==
  LET new_tags == RewriteTags(data.tags, 1, pubkey)
      d_tag == LastTag(data.tags, "d")
  IN IF /\ data.kind = KindIndex
        /\ Len(d_tag) > 0
        /\ d_tag \in DOMAIN children
        /\ ~HasTag(new_tags, "a")
     THEN new_tags \o ChildAddressTags(children[d_tag], pubkey)
     ELSE new_tags

\* events_data after loading and rewriting (lines 88-160)
LoadEventsData(file, pubkey) ==
  Tabulate([i \in 1..Len(file) |->
              [kind |-> file[i].kind,
               tags |-> NewTags(file[i], LoadChildren(file, 1, EmptyDict), pubkey),
               content |-> file[i].content]],
           Len(file))

(***************************************************************************)
(* State                                                                   *)
(***************************************************************************)
VARIABLES
  pc,                    \* the phase of the generate run
  collection_id,         \* serialize_bookstr argument
  metadata,              \* serialize_bookstr argument: title and version
  section_level,         \* tree.section_level
  sections,              \* the entries of tree.sections consumed so far
  events,                \* serialize_bookstr locals (lines 404-409, 791, 826)
  emitted,
  emitted_verse_d_tags,
  d_tag_to_parent_d,
  parent_section_count,
  d_tag_to_event_type,
  parent_d_to_children,
  book_d_to_preamble_d,
  verse_d,               \* the content d-tag derived in the last iteration
  leaf_d_tags,           \* history: the content d-tag derived for each leaf
  summary,               \* what cmd_generate prints about the events
  events_file,           \* events.ndjson, one record per line
  operation,             \* "none", "publish" or "qc"
  ppc,                   \* the position inside the operation
  secret_key,            \* the secret_key_hex argument
  priv_hex,              \* publish_events_ndjson / qc_check_events locals
  pub_hex,
  events_data,
  current_time,
  prepared_events,
  events_list,
  send_idx,              \* iterations of the send loop completed
  published_count,
  errors,
  found_by_id,           \* qc_check_events locals
  found_by_d_tag,
  result,                \* the value returned, or the exception raised
  clock,                 \* int(time.time())
  backup_file,           \* events.ndjson.backup
  file_at_start,         \* history: events.ndjson when the operation began
  connections,           \* history: relay connections opened by the operation
  sent,                  \* history: messages sent to the relay by the operation
  pending_oks,           \* _publish_all: event id -> the state of its future
  relay,                 \* how the relay answers the EVENT messages
  command,               \* the command function that runs the operation
  exit_code,             \* what the command returned, once it has
  report,                \* what the command printed about the outcome
  relay_events,          \* history: the records the queried relay holds
  wait_time,             \* _publish_all locals of the wait for responses
  last_response_count,
  subscription_id,       \* locals of a query: query_events_from_relay, or
  timeout,               \* the verification of publish_events_ndjson
  start_time,
  events_found,
  response,              \* what the last ws.recv() of the query returned
  relay_store,           \* the records the relay held when the command started
  earlier_runs,          \* history: the results of the earlier runs of the command
  max_in_flight          \* publish_events_ndjson argument

compilerVars ==
  <<events, emitted, emitted_verse_d_tags, d_tag_to_parent_d,
    parent_section_count, d_tag_to_event_type, parent_d_to_children,
    book_d_to_preamble_d, verse_d>>

generateVars ==
  <<pc, collection_id, metadata, section_level, sections, compilerVars,
    leaf_d_tags,
    summary>>

queryVars == <<subscription_id, timeout, start_time, events_found, response>>

\* what a run of the command leaves as it is
runVars == <<relay_store, earlier_runs, max_in_flight>>

\* the default of max_in_flight, which qc_check_events passes as well
DefaultMaxInFlight == 100

publishVars ==
  <<operation, ppc, secret_key, priv_hex, pub_hex, events_data,
    current_time, prepared_events, events_list, send_idx, published_count,
    errors, found_by_id, found_by_d_tag, result, clock, backup_file,
    file_at_start, connections, sent, pending_oks, relay, command,
    exit_code, report,
    relay_events, wait_time, last_response_count, queryVars, runVars>>

vars == <<generateVars, events_file, publishVars>>

\* the compiler's locals as one record
CS ==
  [events |-> events, emitted |-> emitted,
   emitted_verse_d_tags |-> emitted_verse_d_tags,
   d_tag_to_parent_d |-> d_tag_to_parent_d,
   parent_section_count |-> parent_section_count,
   d_tag_to_event_type |-> d_tag_to_event_type,
   parent_d_to_children |-> parent_d_to_children,
   book_d_to_preamble_d |-> book_d_to_preamble_d, verse_d |-> verse_d]

SetCS(s) ==
  /\ events' = s.events
  /\ emitted' = s.emitted
  /\ emitted_verse_d_tags' = s.emitted_verse_d_tags
  /\ d_tag_to_parent_d' = s.d_tag_to_parent_d
  /\ parent_section_count' = s.parent_section_count
  /\ d_tag_to_event_type' = s.d_tag_to_event_type
  /\ parent_d_to_children' = s.parent_d_to_children
  /\ book_d_to_preamble_d' = s.book_d_to_preamble_d
  /\ verse_d' = s.verse_d

NoSummary == [duplicate_d_tags |-> 0, total |-> 0, index_count |-> 0, content_count |-> 0]

\* metadata without a title and without a version
NoMetadata == [title |-> <<>>, version |-> <<>>]

NoResult == [status |-> "none"]

\* nothing was received
NoResponse == [type |-> "none"]

\* the command has not returned
NoExit == <<>>

DefaultSectionLevel == 4

\* no operation of the client is running
ClientIdle ==
  /\ operation = "none"
  /\ ppc = "idle"
  /\ secret_key = <<>>
  /\ priv_hex = <<>>
  /\ pub_hex = <<>>
  /\ events_data = <<>>
  /\ current_time = 0
  /\ prepared_events = <<>>
  /\ events_list = <<>>
  /\ send_idx = 0
  /\ published_count = 0
  /\ errors = <<>>
  /\ found_by_id = {}
  /\ found_by_d_tag = {}
  /\ result = NoResult
  /\ clock = 0
  /\ backup_file = <<>>
  /\ file_at_start = <<>>
  /\ connections = 0
  /\ sent = <<>>
  /\ pending_oks = EmptyDict
  /\ exit_code = NoExit
  /\ report = "none"
  /\ relay_events = {}
  /\ wait_time = 0
  /\ last_response_count = 0
  /\ subscription_id = <<>>
  /\ timeout = 0
  /\ start_time = 0
  /\ events_found = <<>>
  /\ response = NoResponse
  /\ relay_store = {}
  /\ earlier_runs = <<>>
  /\ max_in_flight = DefaultMaxInFlight

\* serialize_bookstr has not started
CompilerAtStart ==
  /\ events = <<>>
  /\ emitted = {}
  /\ emitted_verse_d_tags = {}
  /\ d_tag_to_parent_d = EmptyDict
  /\ parent_section_count = EmptyDict
  /\ d_tag_to_event_type = EmptyDict
  /\ parent_d_to_children = EmptyDict
  /\ book_d_to_preamble_d = EmptyDict
  /\ verse_d = <<>>
  /\ leaf_d_tags = <<>>
  /\ summary = NoSummary

Init ==
  /\ pc = "entries"
  /\ collection_id \in CollectionIds
  /\ metadata = NoMetadata
  /\ section_level \in SectionLevels
  /\ sections = <<>>
  /\ CompilerAtStart
  /\ events_file = <<>>
  /\ relay = "silent"
  /\ command = "generate"
  /\ ClientIdle

(***************************************************************************)
(* The generate run: serialize_bookstr, then the report of cmd_generate    *)
(***************************************************************************)
\* One iteration of the loop over tree.sections, on the next leaf
CompileEntry(leaf) ==
  /\ pc = "entries"
  /\ Len(sections) < MaxLeaves
  /\ LeafLevel(leaf) <= section_level
  /\ LET content == IntToStr(Len(sections) + 1)
     IN /\ SetCS(ProcessEntry(CS, collection_id, section_level, leaf, content))
        /\ sections' = Append(sections,
                         [path_titles |-> leaf.path_titles,
                          path_levels |-> leaf.path_levels,
                          content |-> content])
        /\ leaf_d_tags' = Append(leaf_d_tags, verse_d')
  /\ UNCHANGED <<pc, collection_id, metadata, section_level, summary, events_file,
                 publishVars>>

\* the tree is one the parser produces: section_level is the deepest level
\* with content, or the default when nothing has content
TreeComplete ==
  IF sections = <<>> THEN section_level = DefaultSectionLevel
  ELSE \E i \in 1..Len(sections) : LeafLevel(sections[i]) = section_level

\* The loop is over: build the parent -> children map (lines 789-816)
CompileBuildChildren ==
  /\ pc = "entries"
  /\ TreeComplete
  /\ SetCS(BuildChildren(CS, 1))
  /\ pc' = "children"
  /\ UNCHANGED <<collection_id, metadata, section_level, sections, leaf_d_tags,
                 summary, events_file, publishVars>>

\* First pass: Preamble synthesis (lines 828-934)
CompilePreamblePass ==
  /\ pc = "children"
  /\ SetCS(PreamblePass(CS, 1))
  /\ pc' = "preamble"
  /\ UNCHANGED <<collection_id, metadata, section_level, sections, leaf_d_tags,
                 summary, events_file, publishVars>>

\* Second pass: a-tags (lines 936-970)
CompileATagPass ==
  /\ pc = "preamble"
  /\ SetCS(ATagPass(CS, 1))
  /\ pc' = "compiled"
  /\ UNCHANGED <<collection_id, metadata, section_level, sections, leaf_d_tags,
                 summary, events_file, publishVars>>

\* cmd_generate after serialize_bookstr returned (lines 107-159)
GenerateReport ==
  /\ pc = "compiled"
  /\ summary' = GenerateSummary(events)
  /\ events_file' = events
  /\ pc' = "generated"
  /\ UNCHANGED <<collection_id, metadata, section_level, sections, compilerVars,
                 leaf_d_tags, publishVars>>

Next ==
  \/ \E leaf \in CandidateLeaves : CompileEntry(leaf)
  \/ CompileBuildChildren
  \/ CompilePreamblePass
  \/ CompileATagPass
  \/ GenerateReport

Spec == Init /\ [][Next]_vars

(***************************************************************************)
(* The signing and publishing client                                       *)
(***************************************************************************)
MaxClock == 2

KeyHexLower == PrivOne

KeyHexUpper == <<"A","B">> \o Repeat("0", KeyHexLen - 2)

KeyHexPadded == <<" ">> \o PrivOne \o <<"\n">>

KeyHexShort == <<"a","b","c","d">>

KeyHexOdd == <<"a","b","c">>

KeyHexLong == PrivOne \o <<"0","0">>

KeyNotHex == <<"g">> \o Repeat("0", KeyHexLen - 1)

KeyEmpty == <<>>

KeyZero == Repeat("0", KeyHexLen)

\* the secret keys a caller passes
SecretKeys ==
  {KeyHexLower, KeyHexUpper, KeyHexPadded, NsecOne, NsecBadChecksum,
   KeyHexShort, KeyHexOdd, KeyHexLong, KeyNotHex, KeyEmpty, KeyZero}

\* event_json of lines 171-177
EventJson(data, pubkey, created_at) ==
  [pubkey |-> pubkey, created_at |-> created_at, kind |-> data.kind,
   tags |-> data.tags, content |-> data.content]

\* event_json with its id and then its signature (lines 194-196)
SignedEvent(event_json, privkey_hex) ==
  LET with_id == [pubkey |-> event_json.pubkey,
                  created_at |-> event_json.created_at,
                  kind |-> event_json.kind, tags |-> event_json.tags,
                  content |-> event_json.content,
                  id |-> compute_event_id(event_json)]
  IN [pubkey |-> with_id.pubkey, created_at |-> with_id.created_at,
      kind |-> with_id.kind, tags |-> with_id.tags,
      content |-> with_id.content, id |-> with_id.id,
      sig |-> sign_event(with_id, privkey_hex)]

\* the trees whose events files are published: a verse directly under a
\* book (a Preamble is synthesized), and a verse under a chapter
SampleTrees ==
  {<<<<Leaf(<<T_Bible, T_Genesis>>, <<1, 2>>)>>, 2>>,
   <<<<Leaf(<<T_Bible, T_Genesis, T_GenesisChapter1, T_1_1>>, <<1, 2, 3, 4>>)>>, 4>>}

\* the events files generate wrote for them
GeneratedFiles ==
  {serialize_bookstr(tree[1], tree[2], ID_bible) : tree \in SampleTrees}

\* the file an earlier publish with the key privkey_hex at time t wrote back
PublishedFile(file, privkey_hex, pubkey, t) ==
  Tabulate([i \in 1..Len(file) |->
              SignedEvent(EventJson(LoadEventsData(file, pubkey)[i], pubkey, t),
                          privkey_hex)], Len(file))

\* generated files, as they are and after an earlier publish
WithPublished(files) ==
  files \cup {PublishedFile(f, PrivAB, derive_pubkey(PrivAB), 0) : f \in files}

SampleFiles == WithPublished(GeneratedFiles)

InitPublish ==
  /\ pc = "generated"
  /\ collection_id = ID_bible
  /\ metadata = NoMetadata
  /\ section_level = DefaultSectionLevel
  /\ sections = <<>>
  /\ CompilerAtStart
  /\ events_file \in SampleFiles
  /\ relay = "silent"
  /\ command = "cli"
  /\ ClientIdle

\* lines 77-79 of publish_events_ndjson, 560-561 of qc_check_events: the
\* exception raised, or the key pair
KeyPair(key) ==
  LET priv == normalize_secret_key_to_hex(key) IN
  IF ~priv.ok THEN priv
  ELSE IF ~ValidPrivateKey(priv.value) THEN Raise("invalid private key")
  ELSE Ok([priv_hex |-> priv.value, pub_hex |-> derive_pubkey(priv.value)])

\* the locals of a fresh call
FreshCall ==
  /\ current_time' = 0
  /\ prepared_events' = <<>>
  /\ events_list' = <<>>
  /\ send_idx' = 0
  /\ published_count' = 0
  /\ errors' = <<>>
  /\ found_by_id' = {}
  /\ found_by_d_tag' = {}
  /\ connections' = 0
  /\ sent' = <<>>
  /\ pending_oks' = EmptyDict
  /\ relay_events' = {}
  /\ file_at_start' = events_file

\* publish_events_ndjson is called: the key is normalized, the file is
\* loaded and the tags are rewritten (lines 77-160)
PublishStart(key) ==
  /\ ppc = "idle"
  /\ operation' = "publish"
  /\ secret_key' = key
  /\ FreshCall
  /\ IF KeyPair(key).ok
     THEN /\ priv_hex' = KeyPair(key).value.priv_hex
          /\ pub_hex' = KeyPair(key).value.pub_hex
          /\ events_data' = LoadEventsData(events_file, KeyPair(key).value.pub_hex)
          /\ result' = NoResult
          /\ ppc' = "loaded"
     ELSE /\ priv_hex' = <<>>
          /\ pub_hex' = <<>>
          /\ events_data' = <<>>
          /\ result' = [status |-> "raised", error |-> KeyPair(key).error]
          /\ ppc' = "raised"
  /\ UNCHANGED <<runVars, queryVars, wait_time, last_response_count,
                 generateVars, relay, command, exit_code, report, events_file,
                 clock, backup_file>>

\* current_time = int(time.time()) (line 164)
PublishReadClock ==
  /\ ppc = "loaded"
  /\ current_time' = clock
  /\ ppc' = IF events_data = <<>> THEN "write" ELSE "prepare"
  /\ UNCHANGED <<runVars, queryVars, wait_time, last_response_count,
                 generateVars, relay, command, exit_code, report, pending_oks,
                 relay_events, events_file, found_by_id, found_by_d_tag,
                 operation, secret_key,
                 priv_hex, pub_hex, events_data, prepared_events, events_list,
                 send_idx, published_count, errors, result, clock,
                 backup_file, file_at_start, connections, sent>>

\* an event_json stamped with the time at which it is built
PrepareEventJsonNow(data) == EventJson(data, pub_hex, clock)

\* the event_json built for one record of events_data (lines 171-177)
PrepareEventJson(data) == EventJson(data, pub_hex, current_time)

\* One iteration of the preparation loop (lines 169-186)
PublishPrepareEvent ==
  /\ ppc = "prepare"
  /\ prepared_events' =
       Append(prepared_events,
              PrepareEventJson(events_data[Len(prepared_events) + 1]))
  /\ ppc' = IF Len(prepared_events) + 1 = Len(events_data) THEN "sign"
            ELSE "prepare"
  /\ UNCHANGED <<runVars, queryVars, wait_time, last_response_count,
                 generateVars, relay, command, exit_code, report, pending_oks,
                 relay_events, events_file, found_by_id, found_by_d_tag,
                 operation, secret_key,
                 priv_hex, pub_hex, events_data, current_time, events_list,
                 send_idx, published_count, errors, result, clock,
                 backup_file, file_at_start, connections, sent>>

\* One iteration of the signing loop (lines 192-198); the dict in
\* prepared_events is the one appended to events_list
PublishSignEvent ==
  /\ ppc = "sign"
  /\ LET i == Len(events_list) + 1 IN
       /\ events_list' = Append(events_list, SignedEvent(prepared_events[i], priv_hex))
       /\ prepared_events' =
            [prepared_events EXCEPT ![i] = SignedEvent(prepared_events[i], priv_hex)]
       /\ ppc' = IF i = Len(prepared_events) THEN "write" ELSE "sign"
  /\ UNCHANGED <<runVars, queryVars, wait_time, last_response_count,
                 generateVars, relay, command, exit_code, report, pending_oks,
                 relay_events, events_file, found_by_id, found_by_d_tag,
                 operation, secret_key,
                 priv_hex, pub_hex, events_data, current_time, send_idx,
                 published_count, errors, result, clock, backup_file,
                 file_at_start, connections, sent>>

\* The backup and the write-back of the signed events (lines 203-212)
PublishWriteFile ==
  /\ ppc = "write"
  /\ IF operation = "qc"
     \* ndjson_path is the temporary file of qc_check_events
     THEN UNCHANGED <<backup_file, events_file>>
     ELSE /\ backup_file' = events_file
          /\ events_file' = events_list
  /\ ppc' = "connect"
  /\ UNCHANGED <<runVars, queryVars, wait_time, last_response_count,
                 generateVars, relay, command, exit_code, report, pending_oks,
                 relay_events, found_by_id, found_by_d_tag, operation, secret_key, priv_hex, pub_hex,
                 events_data, current_time, prepared_events, events_list,
                 send_idx, published_count, errors, result, clock,
                 file_at_start, connections, sent>>

\* an entry of errors: what it reports, and the event id it names if any
ErrorEntry(text, event_id) == [error |-> text, event |-> event_id]

\* the id of an event that is not in the file
ForeignId == Sha256(<<>>)

\* websockets.connect(relay_url) in _publish_all (lines 221-223, 352-355)
PublishConnect(connected) ==
  /\ ppc = "connect"
  /\ connections' = connections + 1
  /\ IF connected
     THEN /\ errors' = errors
          /\ ppc' = IF events_list = <<>> THEN "settle" ELSE "send"
     ELSE /\ errors' = errors \o <<ErrorEntry("Connection error", <<>>),
                                   ErrorEntry("Traceback", <<>>)>>
          /\ ppc' = "verify"
  /\ UNCHANGED <<runVars, queryVars, wait_time, last_response_count,
                 generateVars, relay, command, exit_code, report, pending_oks,
                 relay_events, events_file, found_by_id, found_by_d_tag,
                 operation, secret_key,
                 priv_hex, pub_hex, events_data, current_time,
                 prepared_events, events_list, send_idx, published_count,
                 result, clock, backup_file, file_at_start, sent>>

SendOutcomes == {"sent", "closed", "error"}

\* the sends of one run that fail with an error other than a closed connection
MaxSendErrors == 1

\* the entries of errors with the text
ErrorsWith(log, text) == {i \in 1..Len(log) : log[i].error = text}

\* the loop sends the next record only once the one before it is answered
SendLoopAwaitsOk ==
  /\ ppc = "send"
  /\ send_idx > 0 => pending_oks[events_list[send_idx].id] # "pending"

\* the send loop is at its next iteration (line 267): nothing in the loop
\* awaits a future of pending_oks
SendLoopRuns == ppc = "send"

\* One iteration of the send loop (lines 267-292)
PublishSendEvent(outcome) ==
  /\ SendLoopRuns
  /\ outcome = "error" =>
       Cardinality(ErrorsWith(errors, "Error sending event")) < MaxSendErrors
  /\ send_idx' = send_idx + 1
  /\ pending_oks' = Put(pending_oks, events_list[send_idx + 1].id, "pending")
  /\ IF outcome = "sent"
     THEN /\ sent' = Append(sent, <<"EVENT", events_list[send_idx + 1]>>)
          /\ published_count' = published_count + 1
          /\ errors' = errors
     ELSE /\ sent' = sent
          /\ published_count' = published_count
          /\ errors' = Append(errors,
                          ErrorEntry(IF outcome = "closed" THEN "Connection lost"
                                     ELSE "Error sending event", <<>>))
  /\ ppc' = IF outcome = "closed" \/ send_idx + 1 = Len(events_list)
            THEN "settle" ELSE "send"
  /\ UNCHANGED <<runVars, queryVars, wait_time, last_response_count,
                 generateVars, relay, command, exit_code, report,
                 relay_events, events_file, found_by_id, found_by_d_tag,
                 operation, secret_key,
                 priv_hex, pub_hex, events_data, current_time,
                 prepared_events, events_list, result, clock, backup_file,
                 file_at_start, connections>>

\* what the relay sends while the connection of _publish_all is open
RelayMessages ==
  {[type |-> "OK", id |-> id, accepted |-> accepted] :
     id \in DOMAIN pending_oks \cup {ForeignId}, accepted \in BOOLEAN}
  \cup {[type |-> "NOTICE", text |-> text] : text \in {"error", "hello"}}

\* the entries of errors which message_handler appended
HandlerErrors(log) ==
  ErrorsWith(log, "Error parsing message") \cup ErrorsWith(log, "Relay notice")
  \cup {i \in ErrorsWith(log, "rejected") : log[i].event = ForeignId}

\* the messages of one connection that make message_handler log an error
MaxHandlerErrors == 1

\* One iteration of message_handler (lines 231-253): the futures and the
\* errors after the message
HandleMessage(futures, log, message) ==
  IF message.type = "OK"
  THEN IF message.id \in DOMAIN futures
       THEN IF futures[message.id] = "pending"
            THEN [pending_oks |-> Put(futures, message.id,
                                          IF message.accepted THEN "accepted"
                                          ELSE "rejected"),
                  errors |-> log]
            \* set_result on a future that is done raises
            ELSE [pending_oks |-> futures,
                  errors |-> Append(log, ErrorEntry("Error parsing message", <<>>))]
       ELSE IF ~message.accepted
            THEN [pending_oks |-> futures,
                  errors |-> Append(log, ErrorEntry("rejected", message.id))]
            ELSE [pending_oks |-> futures, errors |-> log]
  ELSE IF message.text = "error"
       THEN [pending_oks |-> futures,
             errors |-> Append(log, ErrorEntry("Relay notice", <<>>))]
       ELSE [pending_oks |-> futures, errors |-> log]

\* the position of the first record of events_list with the id
FirstWithId(id) ==
  CHOOSE i \in 1..Len(events_list) :
    /\ events_list[i].id = id
    /\ \A j \in 1..(i - 1) : events_list[j].id # id

\* the ids of the records the relay has received and not answered
Unanswered ==
  {sent[i][2].id : i \in {j \in 1..Len(sent) : sent[j][1] = "EVENT"}}
  \cap {id \in DOMAIN pending_oks : pending_oks[id] = "pending"}

\* the relay's next answer when it rejects every record in the order received
NextRejection ==
  {[type |-> "OK", id |-> id, accepted |-> FALSE] :
     id \in {x \in Unanswered :
               \A y \in Unanswered : FirstWithId(x) <= FirstWithId(y)}}

\* the relay's next answer when it accepts every record in the order received
NextAcceptance ==
  {[type |-> "OK", id |-> id, accepted |-> TRUE] :
     id \in {x \in Unanswered :
               \A y \in Unanswered : FirstWithId(x) <= FirstWithId(y)}}

\* The relay sends a message and message_handler handles it; the handler
\* runs from the connection (line 263) until it is cancelled (line 346)
ReceiveMessage(message) ==
  /\ ppc \in {"send", "settle"}
  /\ \/ relay = "free"
     \/ relay = "rejecting" /\ message \in NextRejection
     \/ relay = "storing" /\ message \in NextAcceptance
  /\ LET after == HandleMessage(pending_oks, errors, message) IN
       /\ Cardinality(HandlerErrors(after.errors)) <= MaxHandlerErrors
       /\ pending_oks' = after.pending_oks
       /\ errors' = after.errors
  /\ UNCHANGED <<runVars, queryVars, wait_time, last_response_count,
                 generateVars, relay, command, exit_code, report, relay_events,
                 events_file, found_by_id, found_by_d_tag, operation, ppc,
                 secret_key, priv_hex, pub_hex, events_data, current_time,
                 prepared_events, events_list, send_idx, published_count,
                 result, clock, backup_file, file_at_start, connections, sent>>

\* "Only log first 10 rejections" (line 325)
RejectionLogLimit == 10

RECURSIVE RejectionSummary(_, _, _, _)
\* The loop over pending_oks.items() of lines 319-333, from the i-th record
\* on: the errors after it. A dict iterates in the order of first insertion.
RejectionSummary(futures, log, i, rejected_count) ==
  IF i > send_idx THEN log
  ELSE LET event_id == events_list[i].id IN
       IF FirstWithId(event_id) = i /\ futures[event_id] = "rejected"
       THEN RejectionSummary(futures,
                             IF rejected_count + 1 <= RejectionLogLimit
                             THEN Append(log, ErrorEntry("rejected", event_id))
                             ELSE log,
                             i + 1, rejected_count + 1)
       ELSE RejectionSummary(futures, log, i + 1, rejected_count)

\* the futures without a result are cancelled (lines 331-333)
CancelPending(futures) ==
  [id \in DOMAIN futures |->
     IF futures[id] = "pending" THEN "cancelled" ELSE futures[id]]

\* The wait for responses, from its first poll to its end, and what follows
\* it without an await: the summary of the rejections and the end of the
\* handler (lines 294-350).  The responses that arrive during the wait are
\* the ReceiveMessage steps before this one; SettlePoll follows the wait
\* poll by poll.
PublishSettle ==
  /\ ppc = "settle"
  /\ errors' = RejectionSummary(pending_oks, errors, 1, 0)
  /\ pending_oks' = CancelPending(pending_oks)
  /\ ppc' = "verify"
  /\ UNCHANGED <<runVars, queryVars, wait_time, last_response_count,
                 generateVars, relay, command, exit_code, report,
                 relay_events, events_file, found_by_id, found_by_d_tag,
                 operation, secret_key,
                 priv_hex, pub_hex, events_data, current_time,
                 prepared_events, events_list, send_idx, published_count,
                 result, clock, backup_file, file_at_start,
                 connections, sent>>

\* first_event_d_tag (lines 181-186): the first d-tag of the first record
FirstEventDTag ==
  IF events_data = <<>> THEN <<>>
  ELSE LET tags == events_data[1].tags
           hits == {i \in 1..Len(tags) : Len(tags[i]) > 0 /\ tags[i][1] = "d"}
       IN IF hits = {} THEN <<>>
          ELSE LET tag == tags[CHOOSE i \in hits : \A j \in hits : i <= j]
               IN IF Len(tag) > 1 THEN tag[2] ELSE <<>>

VerifyOutcomes == {"found", "not found", "error"}

\* verification_result (lines 416-471)
Verification(outcome) ==
  IF Len(FirstEventDTag) > 0 /\ published_count > 0
  THEN IF outcome = "error"
       THEN [status |-> "returned", verified |-> FALSE, error |-> "Verification error"]
       ELSE [status |-> "returned", verified |-> (outcome = "found"),
             error |-> IF outcome = "found" THEN "None"
                       ELSE "First event not found on relay"]
  ELSE [status |-> "returned", verified |-> FALSE, error |-> "None"]

\* qc_check_events after the publish of the missing records returned
\* (lines 721-732): result["errors"] is the list errors of qc_check_events
AfterRepublish(qc_result, verification) ==
  [qc_result EXCEPT
     !.status = "returned",
     !.errors = IF verification.verified THEN @
                ELSE Append(@, ErrorEntry("Failed to republish missing events", <<>>))]

\* Verification of the first event and the return (lines 415-471)
PublishVerify(outcome) ==
  /\ ppc = "verify"
  /\ IF Len(FirstEventDTag) > 0 /\ published_count > 0
     THEN /\ connections' = connections + 1
          /\ sent' = IF outcome = "error" THEN sent
                     ELSE sent \o <<<<"REQ", "verify">>, <<"CLOSE", "verify">>>>
     ELSE /\ connections' = connections
          /\ sent' = sent
  /\ result' = IF operation = "qc" THEN AfterRepublish(result, Verification(outcome))
               ELSE Verification(outcome)
  /\ ppc' = "done"
  /\ UNCHANGED <<runVars, queryVars, wait_time, last_response_count,
                 generateVars, relay, command, exit_code, report, pending_oks,
                 relay_events, events_file, found_by_id, found_by_d_tag,
                 operation, secret_key,
                 priv_hex, pub_hex, events_data, current_time,
                 prepared_events, events_list, send_idx, published_count,
                 errors, clock, backup_file, file_at_start>>

(***************************************************************************)
(* The commands, the relay's answers and the user's interrupt              *)
(***************************************************************************)
\* verification.get(key, default) in cmd_publish
Get(dict, key, default) == IF key \in DOMAIN dict THEN dict[key] ELSE default

\* cmd_publish after publish_events_ndjson returned (commands/publish.py
\* lines 29-48): the exit code and the line printed
cmd_publish(verification) ==
  IF Get(verification, "interrupted", FALSE)
  THEN [exit_code |-> 130, report |-> "interrupted"]
  ELSE IF Get(verification, "verified", FALSE)
  THEN [exit_code |-> 0, report |-> "published and verified"]
  ELSE IF Get(verification, "publish_succeeded", FALSE)
          /\ Get(verification, "published_count", 0) > 0
  THEN [exit_code |-> 0, report |-> "published, verification failed"]
  ELSE [exit_code |-> 1, report |-> "failed to publish"]

\* an interrupt reported as a failure to publish
cmd_publish_interrupt_as_failure == [exit_code |-> 1, report |-> "failed to publish"]

\* the except clause of cmd_publish (commands/publish.py lines 49-52)
cmd_publish_interrupted == [exit_code |-> 130, report |-> "interrupted"]

\* _cmd_publish after publish_events_ndjson returned (cli.py lines 169-176)
cli_cmd_publish(verification) ==
  IF Get(verification, "verified", FALSE)
  THEN [exit_code |-> 0, report |-> "published and verified"]
  ELSE [exit_code |-> 1, report |-> "failed to publish"]

\* cmd_qc and _cmd_qc after qc_check_events returned (commands/qc.py lines
\* 65-71, cli.py lines 233-239)
cmd_qc(qc_result) ==
  IF qc_result.missing = 0 /\ qc_result.errors = <<>>
  THEN [exit_code |-> 0, report |-> "all events present"]
  ELSE IF qc_result.missing > 0
  THEN [exit_code |-> 1, report |-> "events missing"]
  ELSE [exit_code |-> 0, report |-> "errors"]

\* what the command makes of an exception that leaves asyncio.run
RaisedOutcome(error) ==
  IF error = "KeyboardInterrupt"
  THEN IF command = "commands" THEN cmd_publish_interrupted
       ELSE [exit_code |-> 130, report |-> "traceback"]
  ELSE [exit_code |-> 1, report |-> "traceback"]

\* What the command makes of the outcome of the operation. An exception
\* that no command catches leaves main() and ends the interpreter: with
\* status 1, or for a KeyboardInterrupt by SIGINT, which the caller reads
\* as 128 + 2.
CommandOutcome ==
  IF result.status = "raised" THEN RaisedOutcome(result.error)
  ELSE IF operation = "qc" THEN cmd_qc(result)
  ELSE IF command = "commands" THEN cmd_publish(result)
  ELSE cli_cmd_publish(result)

\* The command returns, or the exception leaves main() (cli.py line 431)
CommandReturn ==
  /\ ppc \in {"done", "raised"}
  /\ exit_code' = <<CommandOutcome.exit_code>>
  /\ report' = CommandOutcome.report
  /\ ppc' = "exited"
  /\ UNCHANGED <<runVars, queryVars, wait_time, last_response_count,
                 generateVars, relay, command, pending_oks, relay_events,
                 events_file, found_by_id, found_by_d_tag, operation,
                 secret_key, priv_hex, pub_hex, events_data, current_time,
                 prepared_events, events_list, send_idx, published_count,
                 errors, result, clock, backup_file, file_at_start,
                 connections, sent>>

\* the positions of a publish run at which the user can interrupt it
InterruptPoints ==
  {"loaded", "prepare", "sign", "write", "connect", "send", "settle", "verify"}

\* The user presses Ctrl-C: asyncio.run raises KeyboardInterrupt, which no
\* handler inside publish_events_ndjson catches, and the command ends
Interrupt ==
  /\ operation = "publish"
  /\ ppc \in InterruptPoints
  /\ result' = [status |-> "raised", error |-> "KeyboardInterrupt"]
  /\ exit_code' = <<RaisedOutcome("KeyboardInterrupt").exit_code>>
  /\ report' = RaisedOutcome("KeyboardInterrupt").report
  /\ ppc' = "exited"
  /\ UNCHANGED <<runVars, queryVars, wait_time, last_response_count,
                 generateVars, relay, command,
                 pending_oks, relay_events, events_file, found_by_id,
                 found_by_d_tag, operation, secret_key, priv_hex, pub_hex,
                 events_data, current_time, prepared_events, events_list,
                 send_idx, published_count, errors, clock, backup_file,
                 file_at_start, connections, sent>>

\* qc_check_events is called: the key is normalized and the file is loaded
\* into events_to_check, held here in events_data (lines 559-571)
QcStart(key) ==
  /\ ppc = "idle"
  /\ operation' = "qc"
  /\ secret_key' = key
  /\ FreshCall
  /\ IF KeyPair(key).ok
     THEN /\ priv_hex' = KeyPair(key).value.priv_hex
          /\ pub_hex' = KeyPair(key).value.pub_hex
          /\ events_data' = events_file
          /\ result' = NoResult
          /\ ppc' = "qc_ids"
     ELSE /\ priv_hex' = <<>>
          /\ pub_hex' = <<>>
          /\ events_data' = <<>>
          /\ result' = [status |-> "raised", error |-> KeyPair(key).error]
          /\ ppc' = "raised"
  /\ UNCHANGED <<runVars, queryVars, wait_time, last_response_count,
                 generateVars, relay, command, exit_code, report,
                 events_file, clock, backup_file>>

\* event_ids (lines 580-584)
EventIds(data) ==
  {data[i].id : i \in {j \in 1..Len(data) : "id" \in DOMAIN data[j]}}

\* d_tags_by_kind (lines 586-598) as the set of (kind, d-tag) pairs
DTagsByKind(data) ==
  {<<data[i].kind, FirstTag(data[i].tags, "d")>> :
     i \in {j \in 1..Len(data) : Len(FirstTag(data[j].tags, "d")) > 0}}

\* what the relay holds of what a query asks for
RelayAnswers == {"all", "first", "none"}

Answer(wanted, answer) ==
  IF answer = "all" \/ wanted = {} THEN wanted
  ELSE IF answer = "first" THEN {CHOOSE x \in wanted : TRUE}
  ELSE {}

\* the records of the file that have an id
SignedRecords(data) ==
  {data[i] : i \in {j \in 1..Len(data) : "id" \in DOMAIN data[j]}}

\* the records of the file the relay holds
Held(data, answer) ==
  IF answer = "all" THEN SignedRecords(data)
  ELSE IF answer = "first" /\ Len(data) > 0 /\ "id" \in DOMAIN data[1] THEN {data[1]}
  ELSE {}

\* query_events_from_relay (lines 493-531) for the filter {authors, ids}
\* against a relay that holds stored: every exception is swallowed and what
\* was received is returned, which is nothing when the connection failed
query_events_by_id(stored, author, ids, failed) ==
  IF failed THEN {}
  ELSE {e \in stored : e.pubkey = author /\ e.id \in ids}

\* the messages of one query that went through
QueryMessages == <<<<"REQ", "qc">>, <<"CLOSE", "qc">>>>

\* The queries by event id against a relay that holds stored; chunks of 100
\* ids, one query each (lines 605-627)
QueryIds(stored, failed) ==
  /\ ppc = "qc_ids"
  /\ IF EventIds(events_data) # {}
     THEN /\ connections' = connections + 1
          /\ sent' = IF failed THEN sent ELSE sent \o QueryMessages
          /\ relay_events' = stored
          /\ found_by_id' =
               {e.id : e \in query_events_by_id(stored, pub_hex,
                                                EventIds(events_data), failed)}
     ELSE UNCHANGED <<connections, sent, found_by_id, relay_events>>
  /\ ppc' = "qc_dtags"
  /\ UNCHANGED <<runVars, queryVars, wait_time, last_response_count,
                 generateVars, relay, command, exit_code, report, pending_oks,
                 events_file, found_by_d_tag, operation, secret_key, priv_hex,
                 pub_hex, events_data, current_time,
                 prepared_events, events_list, send_idx, published_count,
                 errors, result, clock, backup_file, file_at_start>>

\* the relay holds all, the first or none of the records of the file
QcQueryIds(answer, failed) == QueryIds(Held(events_data, answer), failed)

RECURSIVE Times(_, _)
\* n copies of a sequence, one after the other
Times(s, n) == IF n = 0 THEN <<>> ELSE s \o Times(s, n - 1)

\* the d-tags the queries by d-tag ask for
WantedDTags == {p[2] : p \in DTagsByKind(events_data)}

\* The queries by d-tag, one per kind (lines 629-661), to which the relay
\* answers with versions of the d-tags found
QueryDTags(found, failed) ==
  /\ ppc = "qc_dtags"
  /\ LET kinds == {p[1] : p \in DTagsByKind(events_data)}
     IN IF kinds # {}
        THEN /\ connections' = connections + Cardinality(kinds)
             /\ sent' = IF failed THEN sent
                        ELSE sent \o Times(QueryMessages, Cardinality(kinds))
             /\ found_by_d_tag' = IF failed THEN {} ELSE found
        ELSE UNCHANGED <<connections, sent, found_by_d_tag>>
  /\ ppc' = "qc_report"
  /\ UNCHANGED <<runVars, queryVars, wait_time, last_response_count,
                 generateVars, relay, command, exit_code, report, pending_oks,
                 relay_events, events_file, found_by_id, operation, secret_key,
                 priv_hex, pub_hex, events_data, current_time,
                 prepared_events, events_list, send_idx, published_count,
                 errors, result, clock, backup_file, file_at_start>>

\* the relay may hold any version of a d-tag
QcQueryDTags(answer, failed) == QueryDTags(Answer(WantedDTags, answer), failed)

\* a record is missing when neither its id nor a version with its d-tag
\* was found
IsMissingUnlessDTagFound(event_data, found) ==
  /\ "id" \in DOMAIN event_data
  /\ event_data.id \notin found
  /\ FirstTag(event_data.tags, "d") \notin found_by_d_tag

\* the test of lines 689-690
IsMissing(event_data, found) ==
  "id" \in DOMAIN event_data /\ event_data.id \notin found

\* missing_events (lines 667-690), as positions in events_to_check
MissingEvents(data, found) ==
  {i \in 1..Len(data) : IsMissing(data[i], found)}

\* missing_events as the list of records
MissingRecords(data, found) ==
  SelectSeq(data, LAMBDA event_data : IsMissing(event_data, found))

\* found_count (lines 668-685)
FoundCount(data, by_id, by_d_tag) ==
  Cardinality({i \in 1..Len(data) :
                 \/ "id" \in DOMAIN data[i] /\ data[i].id \in by_id
                 \/ /\ Len(FirstTag(data[i].tags, "d")) > 0
                    /\ FirstTag(data[i].tags, "d") \in by_d_tag})

\* the result of lines 692-700
QcResult(status) ==
  [status |-> status, total |-> Len(events_data),
   found |-> FoundCount(events_data, found_by_id, found_by_d_tag),
   found_by_id |-> Cardinality(found_by_id),
   found_by_d_tag |-> Cardinality(found_by_d_tag),
   missing |-> Len(MissingRecords(events_data, found_by_id)),
   missing_events |-> MissingRecords(events_data, found_by_id),
   errors |-> errors]

\* The comparison and the result (lines 663-700); with republish_missing
\* and something missing, the missing records go to a temporary file and
\* publish_events_ndjson is called on it with the same key (lines 702-720)
QcCompare(republish_missing) ==
  /\ ppc = "qc_report"
  /\ IF republish_missing /\ MissingRecords(events_data, found_by_id) # <<>>
     THEN /\ result' = QcResult("republishing")
          /\ events_data' = LoadEventsData(MissingRecords(events_data, found_by_id), pub_hex)
          /\ ppc' = "loaded"
     ELSE /\ result' = QcResult("returned")
          /\ events_data' = events_data
          /\ ppc' = "done"
  /\ UNCHANGED <<runVars, queryVars, wait_time, last_response_count,
                 generateVars, relay, command, exit_code, report, pending_oks,
                 relay_events, events_file, found_by_id, found_by_d_tag,
                 operation, secret_key, priv_hex, pub_hex,
                 current_time, prepared_events, events_list, send_idx,
                 published_count, errors, clock, backup_file, file_at_start,
                 connections, sent>>

\* A second of wall-clock time passes
Tick ==
  /\ clock < MaxClock
  /\ clock' = clock + 1
  /\ UNCHANGED <<runVars, queryVars, wait_time, last_response_count,
                 generateVars, relay, command, exit_code, report, pending_oks,
                 relay_events, events_file, found_by_id, found_by_d_tag,
                 operation, ppc, secret_key, priv_hex, pub_hex,
                 events_data, current_time, prepared_events, events_list,
                 send_idx, published_count, errors, result, backup_file,
                 file_at_start, connections, sent>>

NextPublish ==
  \/ \E key \in SecretKeys : PublishStart(key)
  \/ PublishReadClock
  \/ PublishPrepareEvent
  \/ PublishSignEvent
  \/ PublishWriteFile
  \/ \E connected \in BOOLEAN : PublishConnect(connected)
  \/ \E outcome \in SendOutcomes : PublishSendEvent(outcome)
  \/ PublishSettle
  \/ \E outcome \in VerifyOutcomes : PublishVerify(outcome)
  \/ \E key \in SecretKeys : QcStart(key)
  \/ \E answer \in RelayAnswers, failed \in BOOLEAN : QcQueryIds(answer, failed)
  \/ \E answer \in RelayAnswers, failed \in BOOLEAN : QcQueryDTags(answer, failed)
  \/ QcCompare(FALSE)
  \/ CommandReturn
  \/ Tick

SpecPublish == InitPublish /\ [][NextPublish]_vars

(***************************************************************************)
(* Publishing against a relay that answers                                 *)
(***************************************************************************)
\* an events file of n content records
Batch(n) ==
  Tabulate([i \in 1..n |->
              Event(KindContent, <<<<"d", IntToStr(i)>>>>, IntToStr(i))], n)

\* a pair of records, and a batch one record longer than the rejections the
\* summary logs
ShortBatch == Batch(2)

LongBatch == Batch(RejectionLogLimit + 1)

\* the entry points: _cmd_publish of cli.py, which main() dispatches, and
\* cmd_publish of commands/publish.py
PublishCommands == {"cli", "commands"}

InitRelay ==
  /\ pc = "generated"
  /\ collection_id = ID_bible
  /\ metadata = NoMetadata
  /\ section_level = DefaultSectionLevel
  /\ sections = <<>>
  /\ CompilerAtStart
  /\ \/ relay = "free" /\ events_file = ShortBatch /\ command \in PublishCommands
     \/ relay = "rejecting" /\ events_file = LongBatch /\ command = "cli"
  /\ ClientIdle

NextRelay ==
  \/ PublishStart(KeyHexLower)
  \/ PublishReadClock
  \/ PublishPrepareEvent
  \/ PublishSignEvent
  \/ PublishWriteFile
  \/ \E connected \in BOOLEAN : PublishConnect(connected)
  \/ \E outcome \in SendOutcomes : PublishSendEvent(outcome)
  \/ \E message \in RelayMessages : ReceiveMessage(message)
  \/ PublishSettle
  \/ \E outcome \in VerifyOutcomes : PublishVerify(outcome)
  \/ Interrupt
  \/ CommandReturn

SpecRelay == InitRelay /\ [][NextRelay]_vars

\* the steps of a publish run that has started: each returns or raises
\* within its timeout
ClientStep ==
  \/ PublishReadClock
  \/ PublishPrepareEvent
  \/ PublishSignEvent
  \/ PublishWriteFile
  \/ \E connected \in BOOLEAN : PublishConnect(connected)
  \/ \E outcome \in SendOutcomes : PublishSendEvent(outcome)
  \/ PublishSettle
  \/ \E outcome \in VerifyOutcomes : PublishVerify(outcome)
  \/ CommandReturn

\* SpecRelay with a client that keeps running; the relay and the user owe
\* nothing
InitFreeRelay == InitRelay /\ relay = "free" /\ command = "cli"

FairRelay == InitFreeRelay /\ [][NextRelay]_vars /\ WF_vars(ClientStep)

(***************************************************************************)
(* Quality control of a published file, with and without --republish       *)
(***************************************************************************)
\* a verse directly under a book, and a book with a chapter titled Preamble
\* and a verse of its own
QcTrees ==
  {<<<<Leaf(<<T_Bible, T_Genesis>>, <<1, 2>>)>>, 2>>,
   <<<<Leaf(<<T_Bible, T_Genesis, T_Preamble, T_1_1>>, <<1, 2, 3, 4>>),
       Leaf(<<T_Bible, T_Genesis, T_1_1>>, <<1, 2, 4>>)>>, 4>>}

\* the files an earlier publish with the key PrivAB wrote at time 0, and a
\* file that was never published
QcFiles ==
  {PublishedFile(serialize_bookstr(tree[1], tree[2], ID_bible), PrivAB,
                 derive_pubkey(PrivAB), 0) : tree \in QcTrees}
  \cup {ShortBatch}

\* the key of the earlier publish, another key, and text that is no key
QcKeys == {KeyHexUpper, KeyHexLower, KeyHexShort}

InitQc ==
  /\ pc = "generated"
  /\ collection_id = ID_bible
  /\ metadata = NoMetadata
  /\ section_level = DefaultSectionLevel
  /\ sections = <<>>
  /\ CompilerAtStart
  /\ events_file \in QcFiles
  /\ relay = "silent"
  /\ command = "cli"
  /\ operation = "none"
  /\ ppc = "idle"
  /\ secret_key = <<>>
  /\ priv_hex = <<>>
  /\ pub_hex = <<>>
  /\ events_data = <<>>
  /\ current_time = 0
  /\ prepared_events = <<>>
  /\ events_list = <<>>
  /\ send_idx = 0
  /\ published_count = 0
  /\ errors = <<>>
  /\ found_by_id = {}
  /\ found_by_d_tag = {}
  /\ result = NoResult
  /\ clock \in 0..MaxClock
  /\ backup_file = <<>>
  /\ file_at_start = <<>>
  /\ connections = 0
  /\ sent = <<>>
  /\ pending_oks = EmptyDict
  /\ exit_code = NoExit
  /\ report = "none"
  /\ relay_events = {}
  /\ wait_time = 0
  /\ last_response_count = 0
  /\ subscription_id = <<>>
  /\ timeout = 0
  /\ start_time = 0
  /\ events_found = <<>>
  /\ response = NoResponse
  /\ relay_store = {}
  /\ earlier_runs = <<>>
  /\ max_in_flight = DefaultMaxInFlight

NextQc ==
  \/ \E key \in QcKeys : QcStart(key)
  \/ \E answer \in RelayAnswers, failed \in BOOLEAN : QcQueryIds(answer, failed)
  \/ \E answer \in RelayAnswers, failed \in BOOLEAN : QcQueryDTags(answer, failed)
  \/ \E republish_missing \in BOOLEAN : QcCompare(republish_missing)
  \/ PublishReadClock
  \/ PublishPrepareEvent
  \/ PublishSignEvent
  \/ PublishWriteFile
  \/ \E connected \in BOOLEAN : PublishConnect(connected)
  \/ \E outcome \in SendOutcomes : PublishSendEvent(outcome)
  \/ PublishSettle
  \/ \E outcome \in VerifyOutcomes : PublishVerify(outcome)
  \/ CommandReturn

SpecQc == InitQc /\ [][NextQc]_vars


(***************************************************************************)
(* NKBIP-08 tags: normalize_nkbip08_tag_value and the C, T, c, s and v     *)
(* tags serialize_bookstr puts on the records of one loop iteration         *)
(***************************************************************************)
\* str.isalnum(): a letter or a digit of any script
IsAlnum(c) ==
  c \in LowerChars \cup UpperChars \cup DigitChars \cup {"eacute", "EACUTE", "cjk"}

\* s.strip(chars): the characters of chars removed from both ends
RECURSIVE StripChars(_, _)
StripChars(s, chars) ==
  IF Len(s) = 0 THEN s
  ELSE IF s[1] \in chars THEN StripChars(Tail(s), chars)
  ELSE IF s[Len(s)] \in chars THEN StripChars(SubSeq(s, 1, Len(s) - 1), chars)
  ELSE s

\* the loop over the characters (lines 32-38): a letter or digit is kept in
\* lower case, anything else becomes one hyphen unless it would come first
\* or follow a hyphen
RECURSIVE NormalizeChars(_, _, _)
NormalizeChars(text, i, normalized) ==
  IF i > Len(text) THEN normalized
  ELSE NormalizeChars(text, i + 1,
         IF IsAlnum(text[i]) THEN Append(normalized, LowerChar(text[i]))
         ELSE IF Len(normalized) > 0 /\ normalized[Len(normalized)] # "-"
              THEN Append(normalized, "-")
         ELSE normalized)

\* lines 11-43
normalize_nkbip08_tag_value(text) ==
  IF text = <<>> THEN <<>>
  ELSE StripHyphens(CollapseHyphens(
         NormalizeChars(StripChars(StripChars(text, {" "}), {"\"", "'"}),
                        1, <<>>)))

\* the longest run of digits of s that starts at position i
RECURSIVE DigitRun(_, _)
DigitRun(s, i) ==
  IF i > Len(s) \/ s[i] \notin DigitChars THEN <<>>
  ELSE <<s[i]>> \o DigitRun(s, i + 1)

\* the first position after the spaces that start at position i
RECURSIVE SkipSpaces(_, _)
SkipSpaces(s, i) ==
  IF i <= Len(s) /\ s[i] = " " THEN SkipSpaces(s, i + 1) ELSE i

\* re.search(r'chapter\s+(\d+)', title, re.IGNORECASE): group 1 of the
\* leftmost match, or <<>> when nothing matches
ChapterMatch(title) ==
  LET low == Lower(title)
      hits == {i \in 1..Len(low) :
                 /\ i + 7 <= Len(low)
                 /\ SubSeq(low, i, i + 6) = S_chapter
                 /\ low[i + 7] = " "
                 /\ DigitRun(low, SkipSpaces(low, i + 7)) # <<>>}
  IN IF hits = {} THEN <<>>
     ELSE LET first == CHOOSE i \in hits : \A j \in hits : i <= j
          IN DigitRun(low, SkipSpaces(low, first + 7))

\* the value of the c tag of a chapter title (lines 535-538, 654-657, 757-763)
ChapterTagValue(chapter_title) ==
  IF ChapterMatch(chapter_title) # <<>>
  THEN normalize_nkbip08_tag_value(ChapterMatch(chapter_title))
  ELSE normalize_nkbip08_tag_value(chapter_title)

\* re.match(r'^(\d+):(\d+)$', verse_title.strip()): group 2, or <<>>
VerseMatch(verse_title) ==
  LET t == StripChars(verse_title, {" "})
      a == DigitRun(t, 1)
      b == DigitRun(t, Len(a) + 2)
  IN IF /\ a # <<>>
        /\ Len(a) < Len(t)
        /\ t[Len(a) + 1] = ":"
        /\ b # <<>>
        /\ Len(a) + 1 + Len(b) = Len(t)
     THEN b ELSE <<>>

\* the value of the s tag of a verse title (lines 768-775)
VerseTagValue(verse_title) ==
  IF VerseMatch(verse_title) # <<>>
  THEN normalize_nkbip08_tag_value(VerseMatch(verse_title))
  ELSE normalize_nkbip08_tag_value(verse_title)

\* tags.append([name, value]) under "if value:"
TagIf(name, value) == IF value = <<>> THEN <<>> ELSE <<<<name, value>>>>

\* _add_book_t_tags without a title mapping (book_title_map is None): the
\* display title only (lines 56-72)
add_book_t_tags(book_title) ==
  IF book_title = <<>> THEN <<>>
  ELSE TagIf("T", normalize_nkbip08_tag_value(book_title))

\* the C tag and the v tag every record gets (lines 499-502, 543-546)
CollectionTag(cid) ==
  IF cid = <<>> THEN <<>> ELSE TagIf("C", normalize_nkbip08_tag_value(cid))

VersionTag(md) ==
  IF md.version = <<>> THEN <<>>
  ELSE TagIf("v", normalize_nkbip08_tag_value(md.version))

\* emit_index: the NKBIP-08 tags of an index record (lines 494-546);
\* event_type is the flag the call was made with
IndexNkbip08Tags(cid, md, title, event_type, maybe_book_title) ==
  CollectionTag(cid)
  \o (IF event_type = "collection" /\ md.title # <<>>
      THEN TagIf("T", normalize_nkbip08_tag_value(md.title))
      ELSE IF event_type = "book" THEN add_book_t_tags(maybe_book_title)
      ELSE <<>>)
  \o (IF event_type = "chapter"
      THEN add_book_t_tags(maybe_book_title) \o TagIf("c", ChapterTagValue(title))
      ELSE <<>>)
  \o VersionTag(md)

\* the first ancestor whose title contains "chapter" (lines 647-660)
SectionChapterTag(titles) ==
  LET hits == {i \in 1..(Len(titles) - 1) : Contains(Lower(titles[i]), S_chapter)}
  IN IF hits = {} THEN <<>>
     ELSE TagIf("c", ChapterTagValue(titles[CHOOSE i \in hits : \A j \in hits : i <= j]))

\* the NKBIP-08 tags of a content record at a non-verse level (lines 621-669)
SectionNkbip08Tags(cid, md, titles) ==
  CollectionTag(cid)
  \o add_book_t_tags(titles[1])
  \o SectionChapterTag(titles)
  \o TagIf("s", normalize_nkbip08_tag_value(titles[Len(titles)]))
  \o VersionTag(md)

\* the NKBIP-08 tags of a verse content record (lines 740-783)
VerseNkbip08Tags(cid, md, titles) ==
  CollectionTag(cid)
  \o add_book_t_tags(titles[BookIdx(ChapterIdx(titles))])
  \o TagIf("c", ChapterTagValue(titles[ChapterIdx(titles)]))
  \o TagIf("s", VerseTagValue(titles[Len(titles)]))
  \o VersionTag(md)

\* the NKBIP-08 tags of the record an iteration on entry appended
Nkbip08Tags(s, cid, md, verse_level, entry, event) ==
  IF event.kind = KindIndex
  THEN IndexNkbip08Tags(cid, md, FirstTag(event.tags, "title"),
         Get(s.d_tag_to_event_type, DTagOf(event), "none"),
         IF Get(s.d_tag_to_event_type, DTagOf(event), "none") = "chapter"
         THEN entry.path_titles[BookIdx(ChapterIdx(entry.path_titles))]
         ELSE FirstTag(event.tags, "title"))
  ELSE IF LeafLevel(entry) # verse_level
  THEN SectionNkbip08Tags(cid, md, entry.path_titles)
  ELSE VerseNkbip08Tags(cid, md, entry.path_titles)

\* One iteration of the loop (lines 559-787) with the NKBIP-08 tags on the
\* records it appends; before holds the events of the earlier iterations
ProcessEntryTagged(before, s, cid, md, verse_level, entry) ==
  [s EXCEPT !.events =
     [i \in 1..Len(s.events) |->
        IF i <= before THEN s.events[i]
        ELSE [s.events[i] EXCEPT
                !.tags = @ \o Nkbip08Tags(s, cid, md, verse_level, entry,
                                          s.events[i])]]]

V_1_0 == <<"1",".","0">>

V_KJV_2 == <<"\"","K","J","V",":","2","\"">>

V_Edition == <<"EACUTE","d","i","t","i","o","n"," ","2">>

Versions == {<<>>, V_1_0, V_KJV_2, V_Edition}

MetadataTitles == {<<>>, T_Bible}

Metadatas == {[title |-> t, version |-> v] : t \in MetadataTitles, v \in Versions}

InitTags ==
  /\ pc = "entries"
  /\ collection_id \in CollectionIds
  /\ metadata \in Metadatas
  /\ section_level \in SectionLevels
  /\ sections = <<>>
  /\ CompilerAtStart
  /\ events_file = <<>>
  /\ relay = "silent"
  /\ command = "generate"
  /\ ClientIdle

\* One iteration of the loop over tree.sections, tags included
CompileEntryTagged(leaf) ==
  /\ pc = "entries"
  /\ Len(sections) < MaxLeaves
  /\ LeafLevel(leaf) <= section_level
  /\ LET content == IntToStr(Len(sections) + 1)
     IN /\ SetCS(ProcessEntryTagged(Len(events),
                   ProcessEntry(CS, collection_id, section_level, leaf, content),
                   collection_id, metadata, section_level, leaf))
        /\ sections' = Append(sections,
                         [path_titles |-> leaf.path_titles,
                          path_levels |-> leaf.path_levels,
                          content |-> content])
        /\ leaf_d_tags' = Append(leaf_d_tags, verse_d')
  /\ UNCHANGED <<pc, collection_id, metadata, section_level, summary,
                 events_file, publishVars>>

NextTags == \E leaf \in CandidateLeaves : CompileEntryTagged(leaf)

SpecTags == InitTags /\ [][NextTags]_vars

(***************************************************************************)
(* _publish_all: the wait for responses after the last submission, poll    *)
(* by poll (lines 294-313), followed by the summary (lines 315-350)        *)
(***************************************************************************)
\* await asyncio.sleep(2); wait_time += 2
PollInterval == 2

\* elif wait_time >= 10
MinWait == 10

max_wait == 30

\* sum(1 for f in pending_oks.values() if f.done())
current_responses ==
  Cardinality({id \in DOMAIN pending_oks : pending_oks[id] # "pending"})

\* the wait ends on any poll without a new response
WaitEndsOnPlateau(waited, current, last) ==
  ~(current > last) /\ current = last

\* the break of the loop (lines 308-313)
WaitEnds(waited, current, last) ==
  ~(current > last) /\ waited >= MinWait /\ current = last

\* One iteration of the wait loop.  Nothing is awaited between the last
\* iteration and the summary, so the iteration that ends the loop goes on
\* to the summary of the rejections and cancels the unanswered futures.
SettlePoll ==
  /\ ppc = "settle"
  /\ wait_time < max_wait
  /\ wait_time' = wait_time + PollInterval
  /\ last_response_count' =
       IF current_responses > last_response_count THEN current_responses
       ELSE last_response_count
  /\ IF \/ WaitEnds(wait_time', current_responses, last_response_count)
        \/ ~(wait_time' < max_wait)
     THEN /\ errors' = RejectionSummary(pending_oks, errors, 1, 0)
          /\ pending_oks' = CancelPending(pending_oks)
          /\ ppc' = "verify"
     ELSE UNCHANGED <<errors, pending_oks, ppc>>
  /\ UNCHANGED <<runVars, queryVars, generateVars, relay, command, exit_code, report,
                 relay_events, events_file, found_by_id, found_by_d_tag,
                 operation, secret_key,
                 priv_hex, pub_hex, events_data, current_time,
                 prepared_events, events_list, send_idx, published_count,
                 result, clock, backup_file, file_at_start,
                 connections, sent>>

\* a publish of the long batch over a connection that carries every record,
\* against a relay that answers the records in the order they were sent
InitSettle == InitRelay /\ relay = "rejecting"

NextSettle ==
  \/ PublishStart(KeyHexLower)
  \/ PublishReadClock
  \/ PublishPrepareEvent
  \/ PublishSignEvent
  \/ PublishWriteFile
  \/ \E connected \in BOOLEAN : PublishConnect(connected)
  \/ PublishSendEvent("sent")
  \/ \E message \in RelayMessages : ReceiveMessage(message)
  \/ SettlePoll
  \/ \E outcome \in VerifyOutcomes : PublishVerify(outcome)
  \/ CommandReturn

SpecSettle == InitSettle /\ [][NextSettle]_vars

(***************************************************************************)
(* One query, message by message: query_events_from_relay (lines 474-531)  *)
(* and the verification query of publish_events_ndjson (lines 421-469).    *)
(* Time is int(time.time()): a receive that returns a message takes one    *)
(* second, a receive that times out takes two.                             *)
(***************************************************************************)
\* asyncio.wait_for(ws.recv(), timeout=2.0)
ReceiveWait == 2

\* timeout: float = 30.0 (line 479) and timeout = 10.0 (line 436)
QueryTimeout == 30

VerifyTimeout == 10

\* the EVENT messages of the subscription one query is sent
MaxEventsFound == 2

Callers == {"qc", "verify"}

\* f"qc_{int(time.time())}" (line 498) and "verify" (line 426)
SubscriptionId(caller, now) ==
  IF caller = "qc" THEN <<"qc", now>> ELSE <<"verify">>

OtherSubscription == <<"other">>

\* the records a relay can stream
StreamedRecords == {ShortBatch[i] : i \in 1..Len(ShortBatch)}

\* what ws.recv() returns: a JSON array the loop understands, a text that is
\* not the JSON the loop expects ("malformed": json.loads or an index
\* raises), or the end of the connection ("closed": recv raises)
QueryResponses ==
  {[type |-> "EVENT", sub |-> sub, event |-> e] :
     sub \in {subscription_id, OtherSubscription}, e \in StreamedRecords}
  \cup {[type |-> "EOSE", sub |-> sub] : sub \in {subscription_id, OtherSubscription}}
  \cup {[type |-> t] : t \in {"NOTICE", "malformed", "closed"}}

\* the loop goes on until the relay ends the stream
CollectsUntilEose(now) == TRUE

\* while time.time() - start_time < timeout
Collecting(now) == now - start_time < timeout

\* the value the query's caller goes on with
QueryReturn(caller, found, raised) ==
  IF caller = "qc" THEN [status |-> "returned", events |-> found]
  ELSE IF raised
  THEN [status |-> "returned", verified |-> FALSE, error |-> "Verification error"]
  ELSE [status |-> "returned", verified |-> Len(found) > 0,
        error |-> IF Len(found) > 0 THEN "None"
                  ELSE "First event not found on relay"]

\* the query is called
QueryStart(caller) ==
  /\ operation = "none"
  /\ operation' = "query"
  /\ command' = caller
  /\ ppc' = "req"
  /\ events_found' = <<>>
  /\ timeout' = IF caller = "qc" THEN QueryTimeout ELSE VerifyTimeout
  /\ UNCHANGED <<runVars, subscription_id, start_time, response, wait_time,
                 last_response_count,
                 generateVars, relay, exit_code, report, pending_oks,
                 relay_events, events_file, found_by_id, found_by_d_tag,
                 secret_key, priv_hex, pub_hex, events_data, current_time,
                 prepared_events, events_list, send_idx, published_count,
                 errors, result, clock, backup_file, file_at_start,
                 connections, sent>>

\* websockets.connect and the REQ (lines 496-499, 424-432); either raises
\* when the relay cannot be reached
QueryRequest(outcome) ==
  /\ operation = "query"
  /\ ppc = "req"
  /\ IF outcome = "sent"
     THEN /\ connections' = connections + 1
          /\ subscription_id' = SubscriptionId(command, clock)
          /\ sent' = Append(sent, <<"REQ", SubscriptionId(command, clock)>>)
          /\ start_time' = clock
          /\ ppc' = "collect"
          /\ UNCHANGED result
     ELSE /\ connections' = IF outcome = "send failed" THEN connections + 1
                            ELSE connections
          /\ result' = QueryReturn(command, events_found, TRUE)
          /\ ppc' = "returned"
          /\ UNCHANGED <<subscription_id, sent, start_time>>
  /\ UNCHANGED <<runVars, timeout, events_found, response, wait_time,
                 last_response_count,
                 generateVars, relay, command, exit_code, report, pending_oks,
                 relay_events, events_file, found_by_id, found_by_d_tag,
                 operation, secret_key, priv_hex, pub_hex, events_data,
                 current_time, prepared_events, events_list, send_idx,
                 published_count, errors, clock, backup_file, file_at_start>>

\* One iteration of the loop in which recv returns (lines 504-518, 439-452)
QueryReceive(received) ==
  /\ operation = "query"
  /\ ppc = "collect"
  /\ Collecting(clock)
  /\ clock' = clock + 1
  /\ response' = received
  /\ IF received.type = "EVENT" /\ received.sub = subscription_id
     THEN /\ Len(events_found) < MaxEventsFound
          /\ events_found' = Append(events_found, received.event)
          /\ UNCHANGED <<ppc, result>>
     ELSE IF received.type = "EOSE" /\ received.sub = subscription_id
     THEN /\ ppc' = "close"
          /\ UNCHANGED <<events_found, result>>
     ELSE IF received.type \in {"malformed", "closed"}
     \* the exception leaves the loop and the connection (lines 527-529,
     \* 466-469)
     THEN /\ result' = QueryReturn(command, events_found, TRUE)
          /\ ppc' = "returned"
          /\ UNCHANGED events_found
     ELSE UNCHANGED <<ppc, events_found, result>>
  /\ UNCHANGED <<runVars, subscription_id, timeout, start_time, wait_time,
                 last_response_count,
                 generateVars, relay, command, exit_code, report, pending_oks,
                 relay_events, events_file, found_by_id, found_by_d_tag,
                 operation, secret_key, priv_hex, pub_hex, events_data,
                 current_time, prepared_events, events_list, send_idx,
                 published_count, errors, backup_file, file_at_start,
                 connections, sent>>

\* One iteration in which recv times out: asyncio.TimeoutError, break
\* (lines 519-521, 453-455)
QuerySilence ==
  /\ operation = "query"
  /\ ppc = "collect"
  /\ Collecting(clock)
  /\ clock' = clock + ReceiveWait
  /\ ppc' = "close"
  /\ UNCHANGED <<runVars, queryVars, wait_time, last_response_count,
                 generateVars, relay, command, exit_code, report, pending_oks,
                 relay_events, events_file, found_by_id, found_by_d_tag,
                 operation, secret_key, priv_hex, pub_hex, events_data,
                 current_time, prepared_events, events_list, send_idx,
                 published_count, errors, result, backup_file, file_at_start,
                 connections, sent>>

\* The loop condition is false: the time is up
QueryDeadline ==
  /\ operation = "query"
  /\ ppc = "collect"
  /\ ~Collecting(clock)
  /\ ppc' = "close"
  /\ UNCHANGED <<runVars, queryVars, wait_time, last_response_count,
                 generateVars, relay, command, exit_code, report, pending_oks,
                 relay_events, events_file, found_by_id, found_by_d_tag,
                 operation, secret_key, priv_hex, pub_hex, events_data,
                 current_time, prepared_events, events_list, send_idx,
                 published_count, errors, result, clock, backup_file,
                 file_at_start, connections, sent>>

\* The CLOSE after the loop, and the return (lines 523-531, 457-471)
QueryClose ==
  /\ operation = "query"
  /\ ppc = "close"
  /\ sent' = Append(sent, <<"CLOSE", subscription_id>>)
  /\ result' = QueryReturn(command, events_found, FALSE)
  /\ ppc' = "returned"
  /\ UNCHANGED <<runVars, queryVars, wait_time, last_response_count,
                 generateVars, relay, command, exit_code, report, pending_oks,
                 relay_events, events_file, found_by_id, found_by_d_tag,
                 operation, secret_key, priv_hex, pub_hex, events_data,
                 current_time, prepared_events, events_list, send_idx,
                 published_count, errors, clock, backup_file, file_at_start,
                 connections>>

InitQuery ==
  /\ pc = "generated"
  /\ collection_id = ID_bible
  /\ metadata = NoMetadata
  /\ section_level = DefaultSectionLevel
  /\ sections = <<>>
  /\ CompilerAtStart
  /\ events_file = <<>>
  /\ relay = "free"
  /\ command = "none"
  /\ operation = "none"
  /\ ppc = "idle"
  /\ secret_key = <<>>
  /\ priv_hex = <<>>
  /\ pub_hex = <<>>
  /\ events_data = <<>>
  /\ current_time = 0
  /\ prepared_events = <<>>
  /\ events_list = <<>>
  /\ send_idx = 0
  /\ published_count = 0
  /\ errors = <<>>
  /\ found_by_id = {}
  /\ found_by_d_tag = {}
  /\ result = NoResult
  /\ clock \in 0..MaxClock
  /\ backup_file = <<>>
  /\ file_at_start = <<>>
  /\ connections = 0
  /\ sent = <<>>
  /\ pending_oks = EmptyDict
  /\ exit_code = NoExit
  /\ report = "none"
  /\ relay_events = {}
  /\ wait_time = 0
  /\ last_response_count = 0
  /\ subscription_id = <<>>
  /\ timeout = 0
  /\ start_time = 0
  /\ events_found = <<>>
  /\ response = NoResponse
  /\ relay_store = {}
  /\ earlier_runs = <<>>
  /\ max_in_flight = DefaultMaxInFlight

NextQuery ==
  \/ \E caller \in Callers : QueryStart(caller)
  \/ \E outcome \in {"sent", "refused", "send failed"} : QueryRequest(outcome)
  \/ \E received \in QueryResponses : QueryReceive(received)
  \/ QuerySilence
  \/ QueryDeadline
  \/ QueryClose

SpecQuery == InitQuery /\ [][NextQuery]_vars

\* the steps of a query that was called: each await of the coroutine ends,
\* the receive by a message or by its two seconds
QueryStep ==
  \/ \E outcome \in {"sent", "refused", "send failed"} : QueryRequest(outcome)
  \/ \E received \in QueryResponses : QueryReceive(received)
  \/ QuerySilence
  \/ QueryDeadline
  \/ QueryClose

FairQuery == InitQuery /\ [][NextQuery]_vars /\ WF_vars(QueryStep)

(***************************************************************************)
(* The loop of serialize_bookstr over trees with deeper paths              *)
(***************************************************************************)
InitPaths ==
  /\ pc = "entries"
  /\ collection_id \in CollectionIds
  /\ metadata = NoMetadata
  /\ section_level \in {LeafLevel(l) : l \in PathLeaves}
  /\ sections = <<>>
  /\ CompilerAtStart
  /\ events_file = <<>>
  /\ relay = "silent"
  /\ command = "generate"
  /\ ClientIdle

NextPaths == \E leaf \in PathLeaves : CompileEntry(leaf)

SpecPaths == InitPaths /\ [][NextPaths]_vars

(***************************************************************************)
(* Runs of qc and publish, one after the other, against a relay with a     *)
(* store: it accepts and stores every record, or it rejects every record   *)
(***************************************************************************)
\* the records of the EVENT messages of the run
SubmittedRecords ==
  {sent[i][2] : i \in {j \in 1..Len(sent) : sent[j][1] = "EVENT"}}

\* what the relay holds: what it held when the command started and, if it
\* stores what it is sent, the records submitted since
RelayHolds ==
  IF relay = "storing" THEN relay_store \cup SubmittedRecords ELSE relay_store

\* the queries of qc_check_events against the store (lines 605-661)
StoredQueryIds == QueryIds(RelayHolds, FALSE)

\* the d-tags of the versions the relay returns for authors, kinds and #d
StoredDTags ==
  {FirstTag(e.tags, "d") :
     e \in {x \in RelayHolds :
              /\ x.pubkey = pub_hex
              /\ <<x.kind, FirstTag(x.tags, "d")>> \in DTagsByKind(events_data)}}

StoredQueryDTags == QueryDTags(StoredDTags, FALSE)

\* the records the verification query returns: the filter names the
\* author, the kind and the d-tag of the first record (lines 424-432)
VerifyMatches ==
  IF events_data = <<>> THEN {}
  ELSE {e \in RelayHolds : /\ e.pubkey = pub_hex
                           /\ e.kind = events_data[1].kind
                           /\ FirstTag(e.tags, "d") = FirstEventDTag}

\* verified = len(events_found) > 0 (line 460)
StoredVerify ==
  PublishVerify(IF VerifyMatches # {} THEN "found" ELSE "not found")

\* the runs of the command, one after the other
MaxRuns == 2

\* The command has exited and is run again against the same relay
\* (cli.py main): the relay keeps what it holds
CommandAgain ==
  /\ ppc = "exited"
  /\ Len(earlier_runs) + 1 < MaxRuns
  /\ earlier_runs' = Append(earlier_runs,
                            [operation |-> operation, secret_key |-> secret_key,
                             result |-> result, submitted |-> SubmittedRecords])
  /\ relay_store' = RelayHolds
  /\ operation' = "none"
  /\ result' = NoResult
  /\ exit_code' = NoExit
  /\ report' = "none"
  /\ ppc' = "idle"
  /\ UNCHANGED <<max_in_flight, queryVars, wait_time, last_response_count,
                 generateVars, relay, command, pending_oks, relay_events,
                 events_file, found_by_id, found_by_d_tag,
                 secret_key, priv_hex, pub_hex, events_data, current_time,
                 prepared_events, events_list, send_idx, published_count,
                 errors, clock, backup_file, file_at_start,
                 connections, sent>>

\* the key of the earlier publish and another key
StoreKeys == {KeyHexUpper, KeyHexLower}

InitStore ==
  /\ pc = "generated"
  /\ collection_id = ID_bible
  /\ metadata = NoMetadata
  /\ section_level = DefaultSectionLevel
  /\ sections = <<>>
  /\ CompilerAtStart
  /\ events_file \in QcFiles
  /\ relay \in {"storing", "rejecting"}
  /\ command = "cli"
  /\ operation = "none"
  /\ ppc = "idle"
  /\ secret_key = <<>>
  /\ priv_hex = <<>>
  /\ pub_hex = <<>>
  /\ events_data = <<>>
  /\ current_time = 0
  /\ prepared_events = <<>>
  /\ events_list = <<>>
  /\ send_idx = 0
  /\ published_count = 0
  /\ errors = <<>>
  /\ found_by_id = {}
  /\ found_by_d_tag = {}
  /\ result = NoResult
  /\ clock \in 0..MaxClock
  /\ backup_file = <<>>
  /\ file_at_start = <<>>
  /\ connections = 0
  /\ sent = <<>>
  /\ pending_oks = EmptyDict
  /\ exit_code = NoExit
  /\ report = "none"
  /\ relay_events = {}
  /\ wait_time = 0
  /\ last_response_count = 0
  /\ subscription_id = <<>>
  /\ timeout = 0
  /\ start_time = 0
  /\ events_found = <<>>
  /\ response = NoResponse
  /\ relay_store \in {Held(events_file, answer) : answer \in RelayAnswers}
  /\ earlier_runs = <<>>
  /\ max_in_flight = DefaultMaxInFlight

NextStore ==
  \/ \E key \in StoreKeys : QcStart(key)
  \/ \E key \in StoreKeys : PublishStart(key)
  \/ StoredQueryIds
  \/ StoredQueryDTags
  \/ \E republish_missing \in BOOLEAN : QcCompare(republish_missing)
  \/ PublishReadClock
  \/ PublishPrepareEvent
  \/ PublishSignEvent
  \/ PublishWriteFile
  \/ PublishConnect(TRUE)
  \/ PublishSendEvent("sent")
  \/ \E message \in RelayMessages : ReceiveMessage(message)
  \/ PublishSettle
  \/ StoredVerify
  \/ CommandReturn
  \/ CommandAgain

SpecStore == InitStore /\ [][NextStore]_vars

(***************************************************************************)
(* The records in flight during a publish run                              *)
(***************************************************************************)
\* the records of the file to publish
MaxBatch == 3

\* the values of cfg.max_batch the command passes as max_in_flight
MaxInFlights == {1, MaxBatch - 1, DefaultMaxInFlight}

\* the records sent and not yet acknowledged
InFlight ==
  {i \in 1..send_idx :
     /\ \E k \in 1..Len(sent) : sent[k] = <<"EVENT", events_list[i]>>
     /\ pending_oks[events_list[i].id] = "pending"}

InitFlight ==
  /\ pc = "generated"
  /\ collection_id = ID_bible
  /\ metadata = NoMetadata
  /\ section_level = DefaultSectionLevel
  /\ sections = <<>>
  /\ CompilerAtStart
  /\ events_file = Batch(MaxBatch)
  /\ relay \in {"free", "storing"}
  /\ command = "cli"
  /\ operation = "none"
  /\ ppc = "idle"
  /\ secret_key = <<>>
  /\ priv_hex = <<>>
  /\ pub_hex = <<>>
  /\ events_data = <<>>
  /\ current_time = 0
  /\ prepared_events = <<>>
  /\ events_list = <<>>
  /\ send_idx = 0
  /\ published_count = 0
  /\ errors = <<>>
  /\ found_by_id = {}
  /\ found_by_d_tag = {}
  /\ result = NoResult
  /\ clock = 0
  /\ backup_file = <<>>
  /\ file_at_start = <<>>
  /\ connections = 0
  /\ sent = <<>>
  /\ pending_oks = EmptyDict
  /\ exit_code = NoExit
  /\ report = "none"
  /\ relay_events = {}
  /\ wait_time = 0
  /\ last_response_count = 0
  /\ subscription_id = <<>>
  /\ timeout = 0
  /\ start_time = 0
  /\ events_found = <<>>
  /\ response = NoResponse
  /\ relay_store = {}
  /\ earlier_runs = <<>>
  /\ max_in_flight \in MaxInFlights

NextFlight ==
  \/ PublishStart(KeyHexLower)
  \/ PublishReadClock
  \/ PublishPrepareEvent
  \/ PublishSignEvent
  \/ PublishWriteFile
  \/ \E connected \in BOOLEAN : PublishConnect(connected)
  \/ \E outcome \in SendOutcomes : PublishSendEvent(outcome)
  \/ \E message \in RelayMessages : ReceiveMessage(message)
  \/ PublishSettle
  \/ StoredVerify
  \/ CommandReturn

SpecFlight == InitFlight /\ [][NextFlight]_vars
(***************************************************************************)
(* Properties of the event graph compiler                                  *)
(***************************************************************************)
\* serialize_bookstr has returned
Compiled == pc \in {"compiled", "generated"}

\* the (kind, d-tag) pairs the a-tags of an event address
ATagTargets(event) ==
  {<<SplitColon2(event.tags[k][2])[1], SplitColon2(event.tags[k][2])[3]>> :
     k \in {j \in 1..Len(event.tags) : event.tags[j][1] = "a"}}

\* the (kind, d-tag) pairs recorded as the children of d_tag
RecordedChildren(d_tag) ==
  IF d_tag \in DOMAIN parent_d_to_children
  THEN {<<IntToStr(parent_d_to_children[d_tag][k][1]),
          parent_d_to_children[d_tag][k][2]>> :
          k \in 1..Len(parent_d_to_children[d_tag])}
  ELSE {}

\* the ^[a-z0-9]+(-[a-z0-9]+)*$ shape, within the length limit
WellFormedDTag(d) ==
  /\ Len(d) >= 1
  /\ Len(d) <= MaxDTagLen
  /\ \A i \in 1..Len(d) : d[i] \in LowerChars \cup DigitChars \cup {"-"}
  /\ d[1] # "-"
  /\ d[Len(d)] # "-"
  /\ \A i \in 1..(Len(d) - 1) : ~(d[i] = "-" /\ d[i + 1] = "-")

\* the leaves at the verse level that lie below a collection and a Book
VerseLeaves ==
  {i \in 1..Len(sections) :
     /\ LeafLevel(sections[i]) = section_level
     /\ Len(sections[i].path_titles) >= 3}

\* the d-tag of the Book of a verse leaf
BookDTag(leaf) ==
  d_for(<<collection_id>>
        \o Take(leaf.path_titles, BookIdx(ChapterIdx(leaf.path_titles))))

\* the leaves whose content d-tag an earlier leaf had already derived
DroppedLeaves ==
  {j \in 1..Len(leaf_d_tags) :
     \E i \in 1..(j - 1) : leaf_d_tags[i] = leaf_d_tags[j]}

\* C1: in the output of one run no two records of the same kind carry the
\* same d-tag, also after the Preamble chapters have been appended.
C1_UniqueDTagPerKind ==
  Compiled =>
    \A i \in 1..Len(events) : \A j \in 1..Len(events) :
      (i # j /\ events[i].kind = events[j].kind)
        => DTagOf(events[i]) # DTagOf(events[j])

\* C2: for every kind-30040 record the targets of its a-tags are exactly the
\* children recorded for its d-tag in parent_d_to_children after the
\* Preamble synthesis.
C2_ATagsAreRecordedChildren ==
  Compiled =>
    \A i \in 1..Len(events) :
      events[i].kind = KindIndex
        => ATagTargets(events[i]) = RecordedChildren(DTagOf(events[i]))

\* C3: no index record that is the Book of some leaf carries an a-tag to a
\* kind-30041 record, and no content record has a Book as its parent.
C3_BookNeverAddressesContent ==
  Compiled =>
    \A l \in VerseLeaves : \A i \in 1..Len(events) :
      /\ (events[i].kind = KindIndex /\ DTagOf(events[i]) = BookDTag(sections[l]))
           => \A t \in ATagTargets(events[i]) : t[1] # IntToStr(KindContent)
      /\ events[i].kind = KindContent
           => FirstTag(events[i].tags, "_parent_d") # BookDTag(sections[l])

\* C4: every d-tag the compiler emits matches ^[a-z0-9]+(-[a-z0-9]+)*$ and
\* is at most 75 characters long.
C4_DTagsWellFormed ==
  \A i \in 1..Len(events) : WellFormedDTag(DTagOf(events[i]))

\* the a-tags, as (event, tag) positions, that address events[e]
AddressesOf(e) ==
  {p \in {<<i, k>> : i \in 1..Len(events), k \in 1..4} :
     /\ events[p[1]].kind = KindIndex
     /\ p[2] <= Len(events[p[1]].tags)
     /\ events[p[1]].tags[p[2]][1] = "a"}

\* a Collection > Book > Chapter > verse input with distinct verses
StandardInput ==
  /\ sections # <<>>
  /\ section_level = 4
  /\ \A i \in 1..Len(sections) : sections[i].path_levels = <<1, 2, 3, 4>>
  /\ \A i \in 1..Len(sections) :
       sections[i].path_titles[1] = sections[1].path_titles[1]
  /\ DroppedLeaves = {}

PathPrefixes(n) == {Take(sections[i].path_titles, n) : i \in 1..Len(sections)}

ContentRecords(d) ==
  {k \in 1..Len(events) :
     events[k].kind = KindContent /\ DTagOf(events[k]) = d}

\* the first leaf that derived the content d-tag d
FirstLeaf(d) ==
  CHOOSE i \in 1..Len(leaf_d_tags) :
    /\ leaf_d_tags[i] = d
    /\ \A j \in 1..(i - 1) : leaf_d_tags[j] # d

\* C6: when several leaves derive the same content d-tag, the output holds
\* exactly one kind-30041 record with that d-tag and its content is that of
\* the first such leaf in input order; the later leaves are dropped.
C6_FirstLeafWins ==
  Compiled =>
    \A i \in 1..Len(leaf_d_tags) :
      /\ Cardinality(ContentRecords(leaf_d_tags[i])) = 1
      /\ \A k \in ContentRecords(leaf_d_tags[i]) :
           events[k].content = sections[FirstLeaf(leaf_d_tags[i])].content

\* two leaves with different paths derived the same content d-tag and the
\* compiler has returned
C6_Witness ==
  /\ Compiled
  /\ \E i \in 1..Len(sections) : \E j \in 1..Len(sections) :
       /\ i < j
       /\ leaf_d_tags[i] = leaf_d_tags[j]
       /\ sections[i].path_titles # sections[j].path_titles

\* C7: the leaves dropped as duplicates are counted and the count is
\* reported in the run summary: k dropped leaves give a reported count of k.
C7_DroppedLeavesReported ==
  pc = "generated" => summary.duplicate_d_tags = Cardinality(DroppedLeaves)


(***************************************************************************)
(* Properties of the signing and publishing client                         *)
(***************************************************************************)
\* the positions of publish_events_ndjson after the signed events were
\* written back to the events file
AfterWrite == {"connect", "send", "settle", "verify", "done"}

\* the hash of the canonical serialization of the fields a record carries
CanonicalId(e) ==
  Sha256(<<0, e.pubkey, e.created_at, e.kind, e.tags, e.content>>)

\* the tags are final: no _parent_d tag is left and every a-tag carries
\* the author's key
FinalTags(e) ==
  \A k \in 1..Len(e.tags) :
    /\ e.tags[k][1] # "_parent_d"
    /\ e.tags[k][1] = "a" => SplitColon2(e.tags[k][2])[2] = e.pubkey

\* the records that were sent to the relay as EVENT messages
SentRecords == {sent[i][2] : i \in {j \in 1..Len(sent) : sent[j][1] = "EVENT"}}

\* C8: every record publish_events_ndjson writes to the file or sends to
\* the relay has as id the hash of the canonical serialization of its own
\* final fields, its signature is over exactly that id, and the record is
\* the one that was signed: nothing changed after the id was computed.
C8_IdIsHashOfFinalFields ==
  operation = "publish" =>
    /\ \A i \in 1..Len(events_list) :
         /\ events_list[i].pubkey = pub_hex
         /\ events_list[i].id = CanonicalId(events_list[i])
         /\ events_list[i].sig.message_hash = events_list[i].id
         /\ events_list[i].sig.signer = events_list[i].pubkey
         /\ FinalTags(events_list[i])
         /\ prepared_events[i] = events_list[i]
    /\ \A r \in SentRecords : \E i \in 1..Len(events_list) : r = events_list[i]
    /\ ppc \in AfterWrite => events_file = events_list

\* a publish call has returned after it rewrote the tags of a generated
\* file, wrote the signed records back and sent a record with an a-tag
C8_Witness ==
  /\ operation = "publish"
  /\ ppc = "done"
  /\ events_file = events_list
  /\ \E i \in 1..Len(file_at_start) : HasTag(file_at_start[i].tags, "_parent_d")
  /\ \E r \in SentRecords : HasTag(r.tags, "a")

\* C9: all records signed in one publish_events_ndjson call carry the same
\* created_at, the time read once before the first record is signed,
\* however many records there are and however long signing and sending take.
C9_OneCreatedAt ==
  operation = "publish" =>
    /\ \A i \in 1..Len(prepared_events) :
         prepared_events[i].created_at = current_time
    /\ \A i \in 1..Len(events_list) : events_list[i].created_at = current_time
    /\ \A r \in SentRecords : r.created_at = current_time
    /\ ppc \in AfterWrite =>
         \A i \in 1..Len(events_file) : events_file[i].created_at = current_time

\* a publish call has returned after sending several records, and time
\* has passed since the timestamp was read
C9_Witness ==
  /\ operation = "publish"
  /\ ppc = "done"
  /\ Cardinality(SentRecords) >= 2
  /\ clock > current_time

\* text that is exactly 32 bytes of hex
HexOf32Bytes(text) ==
  /\ Len(text) = 2 * 32
  /\ \A i \in 1..Len(text) : text[i] \in HexChars

\* key text that is neither a valid nsec encoding nor 32 bytes of hex
InvalidKeyText(text) == text # NsecOne /\ ~HexOf32Bytes(text)

\* a secret key that, surrounding whitespace apart, is such a text
InvalidKey(key) == InvalidKeyText(Strip(key))

\* C10: with a secret key that is neither a valid nsec encoding nor exactly
\* 32 bytes of hex, publish_events_ndjson and qc_check_events fail with an
\* error before any relay connection is opened or any message is sent, and
\* the events file is left as it was.
C10_InvalidKeyFailsEarly ==
  (operation # "none" /\ InvalidKey(secret_key)) =>
    /\ ppc \in {"raised", "exited"}
    /\ result.status = "raised"
    /\ connections = 0
    /\ sent = <<>>
    /\ events_file = file_at_start

\* an operation was called on a non-empty events file with hex text of
\* the wrong length as the key, and has raised
C10_Witness ==
  /\ operation \in {"publish", "qc"}
  /\ InvalidKey(secret_key)
  /\ HEX_RE_match(Strip(secret_key))
  /\ ppc = "raised"
  /\ events_file # <<>>


(***************************************************************************)
(* Publishing against a relay that answers                                 *)
(***************************************************************************)
\* the messages sent, as a set
Submitted == {sent[i] : i \in 1..Len(sent)}

\* no send and no connection failed
NoTransportError ==
  \A i \in 1..Len(errors) :
    errors[i].error \notin {"Connection error", "Connection lost", "Error sending event"}

\* the send loop and the settling are over and nobody interrupted them
AfterSettle == operation = "publish" /\ ppc \in {"verify", "done"}

\* C11: the send loop never waits for an OK. Whatever the relay answers (no
\* OK at all, OKs in any order, OKs for some ids only), a publish run that is
\* sending comes to its end; when no send failed every record was sent; and
\* no entry of errors names a record that has received no OK.
C11_SendLoopNeverWaitsForOk ==
  /\ (ppc = "send") ~> (ppc = "exited")
  /\ [](AfterSettle /\ NoTransportError =>
          \A i \in 1..Len(events_list) : <<"EVENT", events_list[i]>> \in Submitted)
  /\ [](\A i \in 1..Len(errors) :
          errors[i].event \in DOMAIN pending_oks =>
            pending_oks[errors[i].event] \notin {"pending", "cancelled"})

\* every record was sent, the second was answered, the first never was, and
\* the run went on to verification without an error
C11_Witness ==
  /\ AfterSettle
  /\ Len(events_list) >= 2
  /\ published_count = Len(events_list)
  /\ pending_oks[events_list[1].id] = "cancelled"
  /\ pending_oks[events_list[2].id] = "accepted"
  /\ errors = <<>>

\* the command has returned from a publish run that ended with a result
PublishReturned ==
  operation = "publish" /\ ppc = "exited" /\ result.status = "returned"

\* the EVENT messages sent
SubmittedEvents == {i \in 1..Len(sent) : sent[i][1] = "EVENT"}

\* C12: when at least one record was sent and the verification query found
\* nothing, the command reports an outcome of its own: not the one of a
\* verified publish, not the one of a failure to publish, and not the exit
\* code of a failure.
C12_UnverifiedIsNotFailure ==
  (/\ PublishReturned
   /\ published_count >= 1
   /\ result.error = "First event not found on relay")
  => /\ exit_code # <<1>>
     /\ report \notin {"published and verified", "failed to publish"}

\* the connection was lost in the send loop
ConnectionLost == ErrorsWith(errors, "Connection lost") # {}

\* C13: when the connection drops after at least one record was sent, the
\* records sent stay counted, the drop is in errors, the verification has
\* run, and the command does not report a failure to publish.
C13_DropIsPartialSuccess ==
  (PublishReturned /\ ConnectionLost /\ published_count >= 1)
  => /\ published_count = Cardinality(SubmittedEvents)
     /\ connections = 2
     /\ exit_code # <<1>>
     /\ report # "failed to publish"

\* the ids for which the relay's OK said accepted = false
RejectedIds == {id \in DOMAIN pending_oks : pending_oks[id] = "rejected"}

\* C14: a rejection stops no submission (when no send failed every record
\* was sent, whatever was rejected), and once the settling has ended every
\* rejection received has its entry in errors.
C14_RejectionsRecorded ==
  AfterSettle =>
    /\ NoTransportError =>
         \A i \in 1..Len(events_list) : <<"EVENT", events_list[i]>> \in Submitted
    /\ \A id \in RejectedIds :
         \E i \in 1..Len(errors) : errors[i] = ErrorEntry("rejected", id)

\* the run ended by the user's interrupt
Interrupted ==
  /\ operation = "publish"
  /\ ppc = "exited"
  /\ result.status = "raised"
  /\ result.error = "KeyboardInterrupt"

QcCompared == operation = "qc" /\ result.status \in {"republishing", "returned"}

\* the records listed in missing_events
ListedMissing ==
  {result.missing_events[i] : i \in 1..Len(result.missing_events)}

\* C16: a record of the checked file is listed as missing exactly when its
\* id is not among the ids the by-id queries returned, whatever the d-tag
\* queries returned.
C16_MissingIffIdNotFound ==
  QcCompared =>
    \A i \in 1..Len(events_file) :
      "id" \in DOMAIN events_file[i] =>
        (events_file[i] \in ListedMissing <=> events_file[i].id \notin found_by_id)

\* a record is listed as missing although a version with its d-tag was
\* found, and another, whose id was found, is not listed
C16_Witness ==
  /\ QcCompared
  /\ \E i \in 1..Len(events_file) :
       /\ events_file[i] \in ListedMissing
       /\ FirstTag(events_file[i].tags, "d") \in found_by_d_tag
  /\ \E i \in 1..Len(events_file) :
       /\ "id" \in DOMAIN events_file[i]
       /\ events_file[i] \notin ListedMissing

\* the queries of the QC run that went through
QueriesAnswered == Cardinality({i \in 1..Len(sent) : sent[i] = <<"REQ", "qc">>})

\* the queries of the QC run
QueriesMade ==
  (IF EventIds(events_file) = {} THEN 0 ELSE 1)
  + Cardinality({p[1] : p \in DTagsByKind(events_file)})

\* the ids of the records the relay holds
HeldIds == {e.id : e \in relay_events}

\* the checked file holds signed records of the key QC runs with, and the
\* relay answered every query
FaithfulRun ==
  /\ QcCompared
  /\ \A i \in 1..Len(events_file) :
       "id" \in DOMAIN events_file[i] /\ events_file[i].pubkey = pub_hex
  /\ QueriesAnswered = QueriesMade

\* C17: against a relay that answers every query from what it holds, QC
\* lists as missing exactly the records whose id the relay does not hold,
\* counts every other record as found by id, and the two counts add up to
\* the number of records.
C17_MissingPlusFoundIsTotal ==
  FaithfulRun =>
    /\ ListedMissing =
         {events_file[i] : i \in {j \in 1..Len(events_file) :
                                     events_file[j].id \notin HeldIds}}
    /\ result.found_by_id =
         Cardinality({i \in 1..Len(events_file) : events_file[i].id \in HeldIds})
    /\ result.missing + result.found_by_id = Len(events_file)

\* C18: every EVENT message a QC run sends carries the id, sig, pubkey and
\* created_at of a record of the checked file.
C18_RepublishChangesNothing ==
  operation = "qc" =>
    \A i \in SubmittedEvents :
      \E j \in 1..Len(events_file) :
        /\ "id" \in DOMAIN events_file[j]
        /\ sent[i][2].id = events_file[j].id
        /\ sent[i][2].sig = events_file[j].sig
        /\ sent[i][2].pubkey = events_file[j].pubkey
        /\ sent[i][2].created_at = events_file[j].created_at

\* C19: a QC run in which a query failed still returns, and its result
\* lists an error.
C19_QueryErrorsReported ==
  (/\ operation = "qc"
   /\ ppc \in {"done", "exited"}
   /\ prepared_events = <<>>
   /\ QueriesAnswered < QueriesMade)
  => (result.status = "returned" /\ result.errors # <<>>)

(***************************************************************************)
(* C20: every value of a C, T, c, s or v tag of an emitted record consists *)
(* of ASCII lowercase letters, ASCII digits and hyphens only (so it holds  *)
(* no colon), whatever the titles, the collection id and the version are,  *)
(* non-ASCII letters included.                                             *)
(***************************************************************************)
Nkbip08TagNames == {"C", "T", "c", "s", "v"}

TagValueChars == LowerChars \cup DigitChars \cup {"-"}

C20_TagValuesAreAsciiSlugs ==
  \A i \in 1..Len(events) : \A j \in 1..Len(events[i].tags) :
    events[i].tags[j][1] \in Nkbip08TagNames =>
      \A k \in 1..Len(events[i].tags[j][2]) :
        events[i].tags[j][2][k] \in TagValueChars

(***************************************************************************)
(* C21: during a publish operation the map of pending acknowledgements     *)
(* and its entries are modified by the receive task only: a step of the    *)
(* send loop or of the settling logic leaves the map as it is.             *)
(***************************************************************************)
C21_ReceiveTaskIsOnlyWriter ==
  [][(operation = "publish" /\ ppc \in {"send", "settle"}
        /\ pending_oks' # pending_oks)
     => \E message \in RelayMessages : ReceiveMessage(message)]_vars

(***************************************************************************)
(* C22: after the last submission the client polls the count of            *)
(* acknowledgements every 2 seconds; the wait ends at the first poll at or  *)
(* after 10 seconds at which the count is the one of the previous poll, and *)
(* in every case at the poll of second 30, even when acknowledgements keep  *)
(* arriving.                                                               *)
(***************************************************************************)
\* the step is a poll of the wait loop
IsPoll == wait_time' # wait_time

\* the acknowledgements received so far
Acknowledged == {id \in DOMAIN pending_oks : pending_oks[id] # "pending"}

C22_SettleWindow ==
  /\ [][IsPoll =>
          /\ ppc = "settle"
          /\ wait_time' = wait_time + 2
          \* the count the next poll compares with is the count of this poll
          /\ last_response_count' = Cardinality(Acknowledged)
          /\ (ppc' # "settle") <=>
               \/ wait_time' >= 10
                    /\ Cardinality(Acknowledged) = last_response_count
               \/ wait_time' = 30]_vars
  /\ [](wait_time <= 30)
  /\ [](ppc = "settle" => wait_time < 30)
  /\ [][ppc = "settle" /\ ppc' # "settle" => IsPoll]_vars

\* the wait ran into the hard timeout: every poll from second 10 on saw a
\* new acknowledgement
C22_Witness ==
  /\ ppc = "verify"
  /\ wait_time = 30
  /\ last_response_count >= 10

\* the wait ended on the plateau at second 10, after acknowledgements
C22_WitnessPlateau ==
  /\ ppc = "verify"
  /\ wait_time = 10
  /\ last_response_count > 0

(***************************************************************************)
(* C23: every query sends exactly one REQ, collects only the EVENT         *)
(* messages that carry its own subscription id, stops collecting at the    *)
(* EOSE for that id, and then sends CLOSE for that id on every path that   *)
(* ends the collection: EOSE, silence, the overall timeout, or a message   *)
(* that cannot be parsed.                                                  *)
(***************************************************************************)
\* the messages of the given type the query has sent
SentOfType(type) == {i \in 1..Len(sent) : sent[i][1] = type}

\* the query has sent its REQ
Requested == operation = "query" /\ ppc \in {"collect", "close", "returned"}
               /\ SentOfType("REQ") # {}

\* the collection of the query is over and the connection was not lost
CollectionEnded ==
  Requested /\ ppc = "returned" /\ response.type # "closed"

C23_QueryProtocol ==
  /\ [](Requested =>
          /\ Cardinality(SentOfType("REQ")) = 1
          /\ sent[1] = <<"REQ", subscription_id>>)
  /\ [][events_found' # events_found /\ operation' = "query" =>
          /\ response'.type = "EVENT"
          /\ response'.sub = subscription_id
          /\ events_found' = Append(events_found, response'.event)]_vars
  /\ [][(clock' # clock /\ response' = [type |-> "EOSE", sub |-> subscription_id])
          => ppc' = "close"]_vars
  /\ [](CollectionEnded => sent[Len(sent)] = <<"CLOSE", subscription_id>>)

(***************************************************************************)
(* C24: query_events_from_relay always returns: whatever the relay sends   *)
(* or withholds, the collection of responses ends within the timeout plus  *)
(* one receive wait of 2 seconds, and the events gathered so far are        *)
(* returned.                                                               *)
(***************************************************************************)
QueryCalled == operation = "query" /\ command = "qc"

C24_QueryAlwaysReturns ==
  /\ QueryCalled ~> (ppc = "returned")
  /\ [](QueryCalled /\ ppc \in {"collect", "close", "returned"} =>
          clock - start_time <= 30 + 2)
  /\ [](QueryCalled /\ ppc = "returned" => result.events = events_found)

\* the relay never ended the stream: the query returned the events it had
\* gathered when the time was up
C24_Witness ==
  /\ QueryCalled
  /\ ppc = "returned"
  /\ clock - start_time >= 30
  /\ response.type \in {"NOTICE", "EVENT"}
  /\ Len(events_found) > 0

(***************************************************************************)
(* C25: for every verse-level leaf the Chapter is the nearest ancestor,    *)
(* from the leaf upward, whose title contains "chapter", or the immediate  *)
(* parent when no ancestor does; the Book is the ancestor immediately      *)
(* before that Chapter; every ancestor above the Book is emitted as a      *)
(* Collection index in path order, and the first of them carries the       *)
(* publication metadata.                                                   *)
(***************************************************************************)
\* the positions of the ancestors of a leaf whose title contains "chapter"
ChapterAncestors(titles) ==
  {i \in 1..(Len(titles) - 1) : Contains(Lower(titles[i]), S_chapter)}

\* the position of the Chapter of a leaf that has an ancestor
ChapterOf(titles) ==
  IF ChapterAncestors(titles) # {}
  THEN CHOOSE i \in ChapterAncestors(titles) :
         \A j \in ChapterAncestors(titles) : j <= i
  ELSE Len(titles) - 1

\* the position in events of the index record with the d-tag
IndexPosition(evs, d) ==
  CHOOSE i \in 1..Len(evs) : evs[i].kind = KindIndex /\ DTagOf(evs[i]) = d

\* the role a step has recorded for the index it emitted
RoleAfter(d) ==
  IF d \in DOMAIN d_tag_to_event_type' THEN d_tag_to_event_type'[d] ELSE "none"

\* the step handles a leaf of the verse level that has an ancestor; titles
\* and ds are its path and the d-tags of the prefixes of its path
VerseStep(titles, ds) ==
  /\ Len(sections') = Len(sections) + 1
  /\ titles = sections'[Len(sections')].path_titles
  /\ LeafLevel(sections'[Len(sections')]) = section_level
  /\ Len(titles) >= 2
  /\ ds = PathDTags(collection_id, titles)

\* the ancestor at position k gets its index record in this step
NewIndex(ds, k) ==
  /\ ds[k] \notin emitted
  /\ ds[k] \in emitted'
  /\ \A j \in 1..(k - 1) : ds[j] # ds[k]

C25_ChapterBookCollections ==
  [][\A entry \in {sections'[i] : i \in 1..Len(sections')} :
       LET titles == entry.path_titles
           ds == PathDTags(collection_id, titles)
           chapter == ChapterOf(titles)
       IN VerseStep(titles, ds) =>
            /\ \A k \in 1..chapter : ds[k] \in emitted'
            /\ \A k \in 1..(Len(titles) - 1) : NewIndex(ds, k) =>
                 /\ k = chapter => RoleAfter(ds[k]) = "chapter"
                 /\ k = chapter - 1 => RoleAfter(ds[k]) = "book"
                 /\ (k < chapter - 1 /\ k = 1) => RoleAfter(ds[k]) = "collection"
                 /\ (k < chapter - 1 /\ k > 1) => RoleAfter(ds[k]) = "none"
                 /\ \A j \in 1..(k - 1) : NewIndex(ds, j) =>
                      IndexPosition(events', ds[j]) < IndexPosition(events', ds[k])]_vars

(***************************************************************************)
(* C26: when a d-tag is derived from a path whose second-to-last segment   *)
(* slugifies to <node>-chapter-<n> and whose last segment is purely        *)
(* numeric or hyphenated (such as "3:16"), the d-tag ends in               *)
(* <node>-<numbers>, with no chapter marker between the node name and the  *)
(* numbers.                                                                *)
(***************************************************************************)
\* digits and hyphens only, as the slug of "3:16" is
NumericSlug(slug) ==
  /\ Len(slug) > 0
  /\ \A i \in 1..Len(slug) : slug[i] \in DigitChars \cup {"-"}

\* the leaf is at the verse level, so that its d-tag is derived from its path
ChapterVersePath(entry) ==
  /\ LeafLevel(entry) = section_level
  /\ Len(entry.path_titles) >= 2
  /\ ChapterSuffixMatch(slugify_strict(entry.path_titles[Len(entry.path_titles) - 1]))
  /\ NumericSlug(slugify_strict(entry.path_titles[Len(entry.path_titles)]))

\* <node>-<numbers> for the last two titles of a path
CollapsedTail(titles) ==
  ChapterSuffixBook(slugify_strict(titles[Len(titles) - 1]))
    \o <<"-">> \o slugify_strict(titles[Len(titles)])

C26_ChapterTailCollapsed ==
  \A i \in 1..Len(leaf_d_tags) :
    ChapterVersePath(sections[i]) =>
      EndsWith(leaf_d_tags[i], CollapsedTail(sections[i].path_titles))

(***************************************************************************)
(* C27: no index record produced by the compiler carries an a-tag that     *)
(* targets its own durable key (kind 30040 with its own d-tag), and the    *)
(* parent-to-child relation over the emitted records is acyclic, also when *)
(* a leaf derives the same d-tag as its parent index.                      *)
(***************************************************************************)
\* the index records of the compiled list
IndexRecords == {i \in 1..Len(events) : events[i].kind = KindIndex}

\* the record at i carries an a-tag that addresses kind and d
HasATag(i, kind, d) ==
  \E k \in 1..Len(events[i].tags) :
    events[i].tags[k] = ATag(kind, PLACEHOLDER_PUBKEY, d)

\* index i names index j as its child
IndexChild(i, j) == HasATag(i, KindIndex, DTagOf(events[j]))

\* the indexes reachable from the set from over at most n a-tags
RECURSIVE Descendants(_, _)
Descendants(from, n) ==
  IF n = 0 THEN {}
  ELSE LET children == {j \in IndexRecords : \E i \in from : IndexChild(i, j)}
       IN children \cup Descendants(children, n - 1)

C27_NoSelfReference ==
  pc \in {"compiled", "generated"} =>
    /\ \A i \in IndexRecords : ~HasATag(i, KindIndex, DTagOf(events[i]))
    /\ \A i \in IndexRecords : i \notin Descendants({i}, Cardinality(IndexRecords))

(***************************************************************************)
(* C28: reconciliation converges: after a QC run with republish completed  *)
(* against a relay that accepts and stores every record sent to it, a      *)
(* following QC run over the same events file reports the republished      *)
(* records as found by id and no longer as missing.                        *)
(***************************************************************************)
\* the run before this one was a QC run with the same key that republished
RepublishedBefore ==
  /\ relay = "storing"
  /\ Len(earlier_runs) = 1
  /\ earlier_runs[1].operation = "qc"
  /\ earlier_runs[1].secret_key = secret_key
  /\ earlier_runs[1].result.status = "returned"
  /\ earlier_runs[1].submitted # {}

\* the records the run before found missing and sent again
Republished ==
  {earlier_runs[1].result.missing_events[i] :
     i \in 1..Len(earlier_runs[1].result.missing_events)}

C28_ReconciliationConverges ==
  (/\ RepublishedBefore
   /\ operation = "qc"
   /\ result.status \in {"republishing", "returned"})
  => \A record \in Republished :
       /\ record.id \in found_by_id
       /\ \A i \in 1..Len(result.missing_events) :
            result.missing_events[i] # record

(***************************************************************************)
(* C29: publish_events_ndjson returns verified = true only if at least one *)
(* record submitted in this publish operation is stored on the relay; a    *)
(* version of the first record's durable key left by an earlier publish    *)
(* does not make a batch verified whose records were all rejected or lost. *)
(***************************************************************************)
C29_VerifiedMeansStored ==
  (/\ operation = "publish"
   /\ result.status = "returned"
   /\ result.verified)
  => SubmittedRecords \cap RelayHolds # {}

(***************************************************************************)
(* C30: at no point during a publish operation does the number of records  *)
(* sent but not yet acknowledged exceed the max_in_flight argument of      *)
(* publish_events_ndjson.                                                  *)
(***************************************************************************)
C30_InFlightBounded ==
  operation = "publish" => Cardinality(InFlight) <= max_in_flight
=============================================================================
